---- MODULE Spec2Model ----
(***************************************************************************)
(* Scrape orchestration of ecom-watch: the process-wide scrape lock        *)
(* (scrapers/manager.py), the trigger endpoint and its background task     *)
(* (api/scraping.py) and the retry loop of BaseScraper.run                 *)
(* (scrapers/base.py).                                                     *)
(*                                                                         *)
(* Execution model.  trigger_scrape, _background_scrape and run_scrape are *)
(* coroutines of one asyncio event loop: a coroutine keeps the loop from   *)
(* one suspension point (an await that really waits: browser launch, page  *)
(* work, browser close, the sleeps) to the next.  loop_owner is the task   *)
(* that holds the loop (0: the loop is free).  Between two suspension      *)
(* points every assignment to the shared dict is a step of its own, so     *)
(* the states a status reader (a threadpool thread) can see are states of  *)
(* the model, but no other coroutine can run in between.                   *)
(***************************************************************************)
EXTENDS Integers, Sequences, FiniteSets, TLC

\* ---------------------------------------------------------------- bounds
MaxRequests == 2
MaxConfigChanges == 1
MaxComponentLen == 2
MaxLockCalls == 6

\* ------------------------------------------------------- program constants
MAX_RETRIES == 3
RETRY_BACKOFF == <<1, 2, 4>>
COOLDOWN_SECONDS == 5

\* Rows of the retailers table in id order (seed order); "newshop" stands for
\* a row an operator added for which no scraper class is registered.
RetailerRows == <<"bestbuy", "staples", "walmart", "newshop">>
RetailerSlugs == {RetailerRows[i] : i \in 1..Len(RetailerRows)}
SCRAPER_REGISTRY == {"bestbuy", "staples", "walmart"}

\* What a request may name, and the trigger types it may carry: HTTP requests
\* are drawn with a valid and an invalid type, direct callers pass "scheduled".
RequestSlugs == RetailerSlugs \cup {"all", "fakeshop"}
TriggerTypes == {"manual", "auto"}
DirectTriggerTypes == {"scheduled"}
ValidTriggerTypes == {"manual", "scheduled"}

\* Python's None for an Optional value: the empty tuple; a value x is <<x>>.
None == <<>>
NoRetailer == "<None>"
\* An error message: None, or <<kind, attempt>>: the kind of failure the text
\* reports and the attempt that produced it.
Err(kind, attempt) == <<kind, attempt>>

VARIABLES
    current_scrape,   \* manager._current_scrape: None or <<dict>>
    db_retailers,     \* retailers table: slug -> "enabled" | "disabled" | "absent"
    last_scraped,     \* Retailer.last_scraped: slug -> None, or the id of the run that set it
    scrape_runs,      \* scrape_runs table: the rows of the invocations not yet over
    tasks,            \* the run_scrape invocations (background tasks, direct calls)
    loop_owner,       \* the task running on the event loop, 0 when it is free
    n_requests,       \* trigger requests and direct calls made so far
    n_config,         \* configuration changes made so far
    n_claims,         \* history: calls of claim_scrape_lock so far
    last_claim,       \* history: the latest claim_scrape_lock call: what it returned (ret)
                      \*          and whether the lock was held when it was made (held)
    holders,          \* history: claims that returned True since the latest release
    http_status,      \* the latest answer of the trigger endpoint (0: none yet)
    scraper,          \* one BaseScraper object and the run() call made on it
    storage,          \* the latest call of a storage-path function and its answer
    lock_calls,       \* history: release_scrape_lock calls in a row, callers of the lock API
    single,           \* one _scrape_single_retailer call, step by step
    visit             \* one _attempt_scrape call after the launch, step by step

\* The variables of the application (manager, endpoint, tables).
app_vars == <<current_scrape, db_retailers, last_scraped, scrape_runs, tasks,
              loop_owner, n_requests, n_config, n_claims, last_claim, holders,
              http_status>>

\* The variables of the units looked at on their own: a scraper's run(), the
\* storage-path functions, direct calls of the lock functions.
unit_vars == <<scraper, storage, lock_calls, single, visit>>

vars == <<app_vars, unit_vars>>

\* ------------------------------------------------------------ manager.py

\* get_scrape_status(): the idle shape, or the dict with running = True.
get_scrape_status(cs) ==
    IF cs = None
    THEN [running |-> FALSE, current_retailer |-> NoRetailer, progress |-> <<0, 1>>,
          retailers_completed |-> 0, retailers_total |-> 0]
    ELSE [running |-> TRUE, current_retailer |-> cs[1].current_retailer,
          progress |-> cs[1].progress,
          retailers_completed |-> cs[1].retailers_completed,
          retailers_total |-> cs[1].retailers_total]

\* The dict claim_scrape_lock() creates.  progress is a float, kept as the
\* fraction <<numerator, denominator>> the code computes (0.0 is 0/1).
FreshScrape ==
    [current_retailer |-> NoRetailer, progress |-> <<0, 1>>,
     retailers_completed |-> 0, retailers_total |-> 0]

\* A claim that forgets to test the lock (the check-then-act guard dropped).
claim_scrape_lock_unguarded(cs) == [ret |-> TRUE, cs |-> <<FreshScrape>>]

\* A claim that starts the dict afresh even when it refuses.
claim_scrape_lock_resetting(cs) == [ret |-> cs = None, cs |-> <<FreshScrape>>]

\* claim_scrape_lock(): test and set without an await in between.
claim_scrape_lock(cs) ==
    IF cs # None
    THEN [ret |-> FALSE, cs |-> cs]
    ELSE [ret |-> TRUE, cs |-> <<FreshScrape>>]

\* A release that empties the dict and leaves it in place.
release_scrape_lock_fields_only(cs) == IF cs = None THEN None ELSE <<FreshScrape>>

\* release_scrape_lock(), and the finally of run_scrape: _current_scrape = None.
release_scrape_lock(cs) == None

\* The history variables after a call of claim_scrape_lock that returned ret.
ClaimCalled(ret) ==
    /\ n_claims' = n_claims + 1
    /\ last_claim' = [ret |-> ret, held |-> current_scrape # None]
    /\ holders' = IF ret THEN holders + 1 ELSE holders

NoClaim == UNCHANGED <<n_claims, last_claim>>

\* A task: one invocation of _background_scrape / run_scrape.  pc is the place
\* in the code; kind, slug, trigger_type, retailers, idx, run_ids, cur_run are
\* the locals of run_scrape; attempt, wait_time, last_error, result, browser
\* those of the scraper at work; exc the exception on its way out.  History:
\* cooldowns (the cooldown sleeps started by the invocation),
\* seen (the row state target resolution met), entered_held (a direct caller
\* got past the guard while the lock was held), claimed (the invocation's own
\* claim succeeded), first_try (every target so far completed on its first
\* attempt), outcomes (the status each scraper returned), n_attempts (attempts
\* started for the current target), att_status / att_error (how the latest
\* attempt ended and the error it produced).
NewTask(kind, pc, slug, trigger_type) ==
    [kind |-> kind, pc |-> pc, slug |-> slug, trigger_type |-> trigger_type,
     retailers |-> <<>>, idx |-> 0, run_ids |-> <<>>, cur_run |-> None,
     exc |-> "", seen |-> "", entered_held |-> FALSE, first_try |-> TRUE,
     claimed |-> FALSE, outcomes |-> <<>>, cooldowns |-> 0,
     attempt |-> 0, n_attempts |-> 0, wait_time |-> 0, browser |-> 0,
     last_error |-> None, att_error |-> None, att_status |-> "",
     result |-> [status |-> "", error_message |-> None, captured |-> FALSE]]

TaskIds == 1..Len(tasks)

SetTask(t, r) == [tasks EXCEPT ![t] = r]

\* The scraper object is local to _scrape_single_retailer: gone on return.
ScraperDropped(tk) ==
    [tk EXCEPT !.attempt = 0, !.n_attempts = 0, !.wait_time = 0, !.browser = 0,
               !.last_error = None, !.att_error = None, !.att_status = "",
               !.result = [status |-> "", error_message |-> None, captured |-> FALSE]]

\* A finished invocation: its frame is gone, what it raised is kept.
Finished(tk) ==
    [NewTask(tk.kind, "done", "", "") EXCEPT !.exc = tk.exc, !.claimed = tk.claimed]

\* The rows of a finished invocation are never read again by the code (a row
\* is read back by its id only, line 192): the model keeps the rows of the
\* invocations still under way and forgets the others.
ForgetRuns(t) == SelectSeq(scrape_runs, LAMBDA r : r.task # t)
ForgetLastScraped(t) ==
    [s \in RetailerSlugs |->
        IF last_scraped[s] # None /\ last_scraped[s][1] = t THEN None ELSE last_scraped[s]]

\* An exception that is dropped on the way: the finally runs and the
\* invocation returns as if nothing had happened.
Raise_swallowed(tk, e) == [tk EXCEPT !.pc = "finally"]

\* An exception raised inside the try of run_scrape: control goes to the finally.
Raise(tk, e) == [tk EXCEPT !.exc = e, !.pc = "finally"]

\* The seeded table (database/seed.py): every seeded row has a registered
\* scraper; scrape_enabled is True by default, and the tests start from all
\* rows disabled as well.
SeededRetailers(state) ==
    [s \in RetailerSlugs |-> IF s \in SCRAPER_REGISTRY THEN state ELSE "absent"]

\* BaseScraper.__init__ (base.py 102-107): no playwright, browser or context.
\* refs are the resources self._playwright / _browser / _context point to;
\* live are the resources started and not closed, as <<attempt, kind>>.
\* History: attempts (per attempt: the user agent and delay bounds it used and
\* how it ended), close_error (the latest teardown raised inside
\* _close_browser), raised (the exception that left run(), "" for none).
NewScraper ==
    [pc |-> "idle", stealth |-> TRUE, attempt |-> 0,
     ua_override |-> None, ua |-> None, min_delay |-> 0, max_delay |-> 0,
     refs |-> {}, live |-> {},
     att_status |-> "", att_error |-> None, last_error |-> None,
     result |-> [status |-> "completed", error_message |-> None,
                 page_title |-> None, page_url |-> None, captured |-> None],
     attempt_result |-> None,
     attempts |-> <<>>, close_error |-> FALSE, raised |-> ""]

\* No storage-path function called yet.
NoStorageCall ==
    [fn |-> "", args |-> <<>>, found |-> FALSE, listed |-> {}, fs_accesses |-> 0]

\* No direct call of the lock functions yet.
\* n: calls made; releases: release_scrape_lock calls in a row up to now;
\* held: the first release of that row found the lock held; written: it found
\* a dict a run had written to; releases_before_claim: the releases in a row
\* that came right before the latest claim.
NoLockCalls ==
    [n |-> 0, releases |-> 0, held |-> FALSE, written |-> FALSE,
     releases_before_claim |-> 0]

\* The ScrapeResult() _attempt_scrape starts from (line 333, dataclass 64-77).
NewScrapeResult ==
    [status |-> "completed", error_message |-> None, page_title |-> None,
     page_url |-> None, screenshot_bytes |-> None, html_content |-> None]

\* No _attempt_scrape call yet.  page is what the browser shows (title and
\* content), elapsed the local of wait_for_challenge_resolution.  History:
\* response and nav_page (what the navigation answered and showed), polls
\* (detect calls made by the wait), ran (the steps executed), exc (the
\* exception that left the call, "" for none).
NoVisit ==
    [pc |-> "idle", stealth |-> TRUE, page |-> None, nav_page |-> None,
     response |-> None, elapsed |-> 0, polls |-> 0, resolved |-> None, ran |-> {},
     result |-> NewScrapeResult, exc |-> ""]

\* No _scrape_single_retailer call yet.  row is the ScrapeRun the call wrote
\* (None before the first commit), result the ScrapeResult it got, advanced
\* whether it saved the retailer's last_scraped, ret the run id it returned,
\* exc the exception that left it.  History: saved (which artifacts were
\* stored: a subset of screenshot, html, metadata), scraper_raised.
NoSingleCall ==
    [pc |-> "idle", slug |-> "", row |-> None, result |-> None, advanced |-> FALSE,
     ret |-> None, exc |-> "", saved |-> {}, scraper_raised |-> FALSE]

\* The state after start-up over a given retailers table: no lock, no task.
InitOver(table) ==
    /\ current_scrape = None
    /\ db_retailers = table
    /\ last_scraped = [s \in RetailerSlugs |-> None]
    /\ scrape_runs = <<>>
    /\ tasks = <<>>
    /\ loop_owner = 0
    /\ n_requests = 0
    /\ n_config = 0
    /\ n_claims = 0
    /\ last_claim = [ret |-> FALSE, held |-> FALSE]
    /\ holders = 0
    /\ http_status = 0
    /\ scraper = NewScraper
    /\ storage = NoStorageCall
    /\ lock_calls = NoLockCalls
    /\ single = NoSingleCall
    /\ visit = NoVisit

Init == \E state \in {"enabled", "disabled"} : InitOver(SeededRetailers(state))

\* ------------------------------------------------------- api/scraping.py

RowState(slug) == IF slug \in RetailerSlugs THEN db_retailers[slug] ELSE "absent"

\* trigger_scrape, lines 49-60: the answer of the validation (0: passed).
ValidateRequest(slug, trigger_type) ==
    IF trigger_type \notin ValidTriggerTypes THEN 400
    ELSE IF slug # "all" /\ RowState(slug) = "absent" THEN 400
    ELSE IF slug # "all" /\ RowState(slug) = "disabled" THEN 400
    ELSE 0

\* A handler that claims the lock first and validates afterwards.
trigger_scrape_claim_first(slug, trigger_type) ==
    /\ loop_owner = 0
    /\ n_requests < MaxRequests
    /\ n_requests' = n_requests + 1
    /\ UNCHANGED <<db_retailers, last_scraped, scrape_runs, loop_owner, n_config>>
    /\ LET c == claim_scrape_lock(current_scrape)
           valid == ValidateRequest(slug, trigger_type) = 0
       IN /\ ClaimCalled(c.ret)
          /\ current_scrape' = c.cs
          /\ http_status' = IF ~c.ret THEN 409
                            ELSE IF valid THEN 200
                            ELSE ValidateRequest(slug, trigger_type)
          /\ tasks' = IF c.ret /\ valid
                      THEN Append(tasks, [NewTask("bg", "queued", slug, trigger_type)
                                            EXCEPT !.claimed = TRUE])
                      ELSE tasks
    /\ UNCHANGED unit_vars

\* POST /api/scrape/run: validate, claim the lock, queue the background task.
\* The handler is a coroutine without an await: one step of the event loop.
trigger_scrape(slug, trigger_type) ==
    /\ loop_owner = 0
    /\ n_requests < MaxRequests
    /\ n_requests' = n_requests + 1
    /\ UNCHANGED <<db_retailers, last_scraped, scrape_runs, loop_owner, n_config>>
    /\ IF ValidateRequest(slug, trigger_type) # 0
       THEN /\ http_status' = ValidateRequest(slug, trigger_type)
            /\ NoClaim
            /\ UNCHANGED <<current_scrape, tasks, holders>>
       ELSE LET c == claim_scrape_lock(current_scrape) IN
            /\ ClaimCalled(c.ret)
            /\ current_scrape' = c.cs
            /\ http_status' = IF c.ret THEN 200 ELSE 409
            /\ tasks' = IF c.ret
                        THEN Append(tasks, [NewTask("bg", "queued", slug, trigger_type)
                                              EXCEPT !.claimed = TRUE])
                        ELSE tasks
    /\ UNCHANGED unit_vars

\* _background_scrape up to the call of run_scrape: SessionLocal() is opened
\* before the try, so its failure ends the task with the lock untouched.
background_scrape_start(t) ==
    /\ loop_owner = 0
    /\ t \in TaskIds
    /\ tasks[t].pc = "queued"
    /\ \E session_ok \in BOOLEAN :
         IF session_ok
         THEN /\ tasks' = SetTask(t, [tasks[t] EXCEPT !.pc = "enter"])
              /\ loop_owner' = t
         ELSE /\ tasks' = SetTask(t, Finished([tasks[t] EXCEPT !.exc = "SessionError"]))
              /\ loop_owner' = 0
    /\ NoClaim
    /\ UNCHANGED <<current_scrape, db_retailers, last_scraped, scrape_runs,
                   n_requests, n_config, holders, http_status>>
    /\ UNCHANGED unit_vars

\* _background_scrape after run_scrape returned or raised: the except branch
\* releases the lock once more, the finally closes the session.
background_scrape_end(t) ==
    /\ loop_owner = t
    /\ t \in TaskIds
    /\ tasks[t].pc = "returned"
    /\ tasks[t].kind = "bg"
    /\ IF tasks[t].exc # ""
       THEN /\ current_scrape' = release_scrape_lock(current_scrape)
            /\ holders' = 0
       ELSE UNCHANGED <<current_scrape, holders>>
    /\ tasks' = SetTask(t, Finished(tasks[t]))
    /\ scrape_runs' = ForgetRuns(t)
    /\ last_scraped' = ForgetLastScraped(t)
    /\ loop_owner' = 0
    /\ NoClaim
    /\ UNCHANGED <<db_retailers, n_requests, n_config, http_status>>
    /\ UNCHANGED unit_vars

\* A direct caller awaits run_scrape without having claimed the lock
\* (run_scrape is exported by scrapers/__init__.py; the guard is written for it).
run_scrape_direct(slug, trigger_type) ==
    /\ loop_owner = 0
    /\ n_requests < MaxRequests
    /\ n_requests' = n_requests + 1
    /\ tasks' = Append(tasks, NewTask("direct", "enter", slug, trigger_type))
    /\ loop_owner' = Len(tasks) + 1
    /\ NoClaim
    /\ UNCHANGED <<current_scrape, db_retailers, last_scraped, scrape_runs,
                   n_config, holders, http_status>>
    /\ UNCHANGED unit_vars

\* The direct caller has its answer (the list of run ids, or the exception).
run_scrape_direct_end(t) ==
    /\ loop_owner = t
    /\ t \in TaskIds
    /\ tasks[t].pc = "returned"
    /\ tasks[t].kind = "direct"
    /\ tasks' = SetTask(t, Finished(tasks[t]))
    /\ scrape_runs' = ForgetRuns(t)
    /\ last_scraped' = ForgetLastScraped(t)
    /\ loop_owner' = 0
    /\ NoClaim
    /\ UNCHANGED <<current_scrape, db_retailers, n_requests, n_config, holders,
                   http_status>>
    /\ UNCHANGED unit_vars

\* The configuration collaborator enables, disables, adds or removes a row.
ConfigUpdate(slug, state) ==
    /\ loop_owner = 0
    /\ n_config < MaxConfigChanges
    /\ db_retailers[slug] # state
    /\ db_retailers' = [db_retailers EXCEPT ![slug] = state]
    /\ n_config' = n_config + 1
    /\ NoClaim
    /\ UNCHANGED <<current_scrape, last_scraped, scrape_runs, tasks, loop_owner,
                   n_requests, holders, http_status>>
    /\ UNCHANGED unit_vars

\* ------------------------------------------------- manager.py: run_scrape

\* Lines 67-71: the guard for direct callers.  It claims only when the lock is
\* free; when the lock is held, by whomever, it lets the caller through.
run_scrape_guard(t) ==
    /\ loop_owner = t
    /\ t \in TaskIds
    /\ tasks[t].pc = "enter"
    /\ IF current_scrape = None
       THEN LET c == claim_scrape_lock(current_scrape) IN
            /\ ClaimCalled(c.ret)
            /\ current_scrape' = c.cs
            /\ tasks' = SetTask(t, IF c.ret
                                   THEN [tasks[t] EXCEPT !.pc = "resolve", !.claimed = TRUE]
                                   ELSE [tasks[t] EXCEPT !.pc = "returned",
                                                         !.exc = "RuntimeError"])
       ELSE /\ NoClaim
            /\ UNCHANGED <<current_scrape, holders>>
            /\ tasks' = SetTask(t, [tasks[t] EXCEPT
                                      !.pc = "resolve",
                                      !.entered_held = (tasks[t].kind = "direct")])
    /\ UNCHANGED <<db_retailers, last_scraped, scrape_runs, loop_owner,
                   n_requests, n_config, http_status>>
    /\ UNCHANGED unit_vars

\* Lines 77-85 with the disabled test left out.
ResolveRetailers_no_enabled_test(slug) ==
    IF slug = "all"
    THEN [error |-> "", seen |-> "all",
          retailers |-> SelectSeq(RetailerRows, LAMBDA s : db_retailers[s] = "enabled")]
    ELSE IF RowState(slug) = "absent"
    THEN [error |-> "ValueError", seen |-> "absent", retailers |-> <<>>]
    ELSE [error |-> "", seen |-> RowState(slug), retailers |-> <<slug>>]

\* Lines 77-85: all enabled rows, or the one named row; an unknown or disabled
\* name is a ValueError.
ResolveRetailers(slug) ==
    IF slug = "all"
    THEN [error |-> "", seen |-> "all",
          retailers |-> SelectSeq(RetailerRows, LAMBDA s : db_retailers[s] = "enabled")]
    ELSE IF RowState(slug) = "absent"
    THEN [error |-> "ValueError", seen |-> "absent", retailers |-> <<>>]
    ELSE IF RowState(slug) = "disabled"
    THEN [error |-> "ValueError", seen |-> "disabled", retailers |-> <<>>]
    ELSE [error |-> "", seen |-> "enabled", retailers |-> <<slug>>]

\* Lines 76-89: resolve the targets; ValueError and the empty list both leave
\* through the finally.
run_scrape_resolve(t) ==
    /\ loop_owner = t
    /\ t \in TaskIds
    /\ tasks[t].pc = "resolve"
    /\ LET r == ResolveRetailers(tasks[t].slug)
           tk == [tasks[t] EXCEPT !.seen = r.seen, !.retailers = r.retailers]
       IN tasks' = SetTask(t, IF r.error # "" THEN Raise(tk, r.error)
                              ELSE IF r.retailers = <<>> THEN [tk EXCEPT !.pc = "finally"]
                              ELSE [tk EXCEPT !.pc = "set_total"])
    /\ NoClaim
    /\ UNCHANGED <<current_scrape, db_retailers, last_scraped, scrape_runs,
                   loop_owner, n_requests, n_config, holders, http_status>>
    /\ UNCHANGED unit_vars

\* _current_scrape[key] = value.  The global is looked up at every assignment:
\* on None the subscript assignment is a TypeError.
SetItem(t, key, value, next_pc) ==
    /\ IF current_scrape = None
       THEN /\ tasks' = SetTask(t, Raise(tasks[t], "TypeError"))
            /\ UNCHANGED current_scrape
       ELSE /\ current_scrape' = <<[current_scrape[1] EXCEPT ![key] = value]>>
            /\ tasks' = SetTask(t, [tasks[t] EXCEPT !.pc = next_pc])
    /\ NoClaim
    /\ UNCHANGED <<db_retailers, last_scraped, scrape_runs, loop_owner,
                   n_requests, n_config, holders, http_status>>

\* Lines 91-92.
run_scrape_set_total(t) ==
    /\ loop_owner = t
    /\ t \in TaskIds
    /\ tasks[t].pc = "set_total"
    /\ SetItem(t, "retailers_total", Len(tasks[t].retailers), "loop_head")
    /\ UNCHANGED unit_vars

CurrentRetailer(tk) == tk.retailers[tk.idx + 1]

\* Lines 94-95.
run_scrape_loop_head(t) ==
    /\ loop_owner = t
    /\ t \in TaskIds
    /\ tasks[t].pc = "loop_head"
    /\ SetItem(t, "current_retailer", CurrentRetailer(tasks[t]), "loop_progress")
    /\ UNCHANGED unit_vars

\* Line 96: progress = idx / len(retailers).
run_scrape_loop_progress(t) ==
    /\ loop_owner = t
    /\ t \in TaskIds
    /\ tasks[t].pc = "loop_progress"
    /\ SetItem(t, "progress", <<tasks[t].idx, Len(tasks[t].retailers)>>, "create_run")
    /\ UNCHANGED unit_vars

\* --------------------------------- manager.py: _scrape_single_retailer

\* A row's id is unique and opaque: <<task, position in the task's loop>>.
RunId(t) == <<t, tasks[t].idx>>

\* An update that stamps completed_at but leaves the status column alone.
UpdateRun_keep_status(id, status, error_message) ==
    [i \in DOMAIN scrape_runs |->
        IF scrape_runs[i].id = id
        THEN [scrape_runs[i] EXCEPT !.error_message = error_message,
                                    !.completed_at = TRUE]
        ELSE scrape_runs[i]]

\* scrape_run.status = ...; .error_message = ...; .completed_at = now; commit.
UpdateRun(id, status, error_message) ==
    [i \in DOMAIN scrape_runs |->
        IF scrape_runs[i].id = id
        THEN [scrape_runs[i] EXCEPT !.status = status,
                                    !.error_message = error_message,
                                    !.completed_at = TRUE]
        ELSE scrape_runs[i]]

Min(a, b) == IF a < b THEN a ELSE b

\* run(), line 411: RETRY_BACKOFF[min(attempt - 1, len(RETRY_BACKOFF) - 1)].
BackoffFor(attempt) == RETRY_BACKOFF[Min(attempt - 1, Len(RETRY_BACKOFF) - 1) + 1]

\* Lines 120-147 and the start of BaseScraper.run (405-415): the ScrapeRun row
\* is committed as running; with a registered scraper the first attempt
\* starts and the coroutine waits for the browser launch.
scrape_single_retailer_create(t) ==
    /\ loop_owner = t
    /\ t \in TaskIds
    /\ tasks[t].pc = "create_run"
    /\ \E db_ok \in BOOLEAN :
         IF ~db_ok
         THEN /\ tasks' = SetTask(t, Raise(tasks[t], "DBError"))
              /\ UNCHANGED <<scrape_runs, loop_owner>>
         ELSE /\ scrape_runs' = Append(scrape_runs,
                    [id |-> RunId(t),
                     retailer |-> CurrentRetailer(tasks[t]), status |-> "running",
                     trigger_type |-> tasks[t].trigger_type, error_message |-> None,
                     completed_at |-> FALSE, task |-> t])
              /\ IF CurrentRetailer(tasks[t]) \notin SCRAPER_REGISTRY
                 THEN /\ tasks' = SetTask(t, [tasks[t] EXCEPT
                                                !.cur_run = RunId(t),
                                                !.pc = "no_scraper"])
                      /\ UNCHANGED loop_owner
                 ELSE /\ tasks' = SetTask(t, [tasks[t] EXCEPT
                            !.cur_run = RunId(t),
                            !.pc = "launch", !.attempt = 0, !.n_attempts = 1,
                            !.wait_time = 0, !.last_error = None, !.att_error = None,
                            !.att_status = "",
                            !.result = [status |-> "completed", error_message |-> None,
                                        captured |-> FALSE]])
                      /\ loop_owner' = 0
    /\ NoClaim
    /\ UNCHANGED <<current_scrape, db_retailers, last_scraped, n_requests,
                   n_config, holders, http_status>>
    /\ UNCHANGED unit_vars

\* Lines 135-141, then line 99: no scraper class, the row is finalized failed.
scrape_single_retailer_no_scraper(t) ==
    /\ loop_owner = t
    /\ t \in TaskIds
    /\ tasks[t].pc = "no_scraper"
    /\ \E db_ok \in BOOLEAN :
         IF ~db_ok
         THEN /\ tasks' = SetTask(t, Raise(tasks[t], "DBError"))
              /\ UNCHANGED scrape_runs
         ELSE /\ scrape_runs' = UpdateRun(tasks[t].cur_run, "failed", Err("no_scraper", 0))
              /\ tasks' = SetTask(t, [tasks[t] EXCEPT
                                        !.run_ids = Append(@, tasks[t].cur_run),
                                        !.outcomes = Append(@, "failed"),
                                        !.first_try = FALSE,
                                        !.pc = "set_completed"])
    /\ NoClaim
    /\ UNCHANGED <<current_scrape, db_retailers, last_scraped, loop_owner,
                   n_requests, n_config, holders, http_status>>
    /\ UNCHANGED unit_vars

\* A finalization that advances last_scraped whatever the result's status.
scrape_single_retailer_finalize_always_advances(t) ==
    /\ loop_owner = t
    /\ t \in TaskIds
    /\ tasks[t].pc = "finalize"
    /\ LET tk == tasks[t]
           ok == tk.result.status \in {"completed", "partial"}
       IN \E db \in {"ok", "commit_fails", "last_scraped_fails"} :
            /\ db = "last_scraped_fails" => ok
            /\ scrape_runs' = IF db = "commit_fails" THEN scrape_runs
                              ELSE UpdateRun(tk.cur_run, tk.result.status,
                                             tk.result.error_message)
            /\ last_scraped' = IF db = "ok"
                               THEN [last_scraped EXCEPT ![CurrentRetailer(tk)] = tk.cur_run]
                               ELSE last_scraped
            /\ tasks' = SetTask(t, IF db # "ok" THEN Raise(ScraperDropped(tk), "DBError")
                                   ELSE [ScraperDropped(tk) EXCEPT
                                           !.run_ids = Append(@, tk.cur_run),
                                           !.first_try = @ /\ ok /\ tk.n_attempts = 1,
                                           !.pc = "set_completed"])
    /\ NoClaim
    /\ UNCHANGED <<current_scrape, db_retailers, loop_owner, n_requests,
                   n_config, holders, http_status>>
    /\ UNCHANGED unit_vars

\* Lines 160-210, then line 99: the row takes the result's status and error;
\* last_scraped advances on completed/partial.  Either commit may raise.
scrape_single_retailer_finalize(t) ==
    /\ loop_owner = t
    /\ t \in TaskIds
    /\ tasks[t].pc = "finalize"
    /\ LET tk == tasks[t]
           ok == tk.result.status \in {"completed", "partial"}
       IN \E db \in {"ok", "commit_fails", "last_scraped_fails"} :
            /\ db = "last_scraped_fails" => ok
            /\ scrape_runs' = IF db = "commit_fails" THEN scrape_runs
                              ELSE UpdateRun(tk.cur_run, tk.result.status,
                                             tk.result.error_message)
            /\ last_scraped' = IF db = "ok" /\ ok
                               THEN [last_scraped EXCEPT ![CurrentRetailer(tk)] = tk.cur_run]
                               ELSE last_scraped
            /\ tasks' = SetTask(t, IF db # "ok" THEN Raise(ScraperDropped(tk), "DBError")
                                   ELSE [ScraperDropped(tk) EXCEPT
                                           !.run_ids = Append(@, tk.cur_run),
                                           !.first_try = @ /\ ok /\ tk.n_attempts = 1,
                                           !.pc = "set_completed"])
    /\ NoClaim
    /\ UNCHANGED <<current_scrape, db_retailers, loop_owner, n_requests,
                   n_config, holders, http_status>>
    /\ UNCHANGED unit_vars

\* Line 101.
run_scrape_set_completed(t) ==
    /\ loop_owner = t
    /\ t \in TaskIds
    /\ tasks[t].pc = "set_completed"
    /\ SetItem(t, "retailers_completed", tasks[t].idx + 1, "set_progress")
    /\ UNCHANGED unit_vars

\* A progress write that repeats the value written before the target.
run_scrape_set_progress_stale(t) ==
    /\ loop_owner = t
    /\ t \in TaskIds
    /\ tasks[t].pc = "set_progress"
    /\ SetItem(t, "progress", <<tasks[t].idx, Len(tasks[t].retailers)>>, "loop_end")
    /\ UNCHANGED unit_vars

\* Line 102: progress = (idx + 1) / len(retailers).
run_scrape_set_progress(t) ==
    /\ loop_owner = t
    /\ t \in TaskIds
    /\ tasks[t].pc = "set_progress"
    /\ SetItem(t, "progress", <<tasks[t].idx + 1, Len(tasks[t].retailers)>>, "loop_end")
    /\ UNCHANGED unit_vars

\* A loop that stops at the first target whose scraper did not complete.
run_scrape_loop_end_stop_on_failure(t) ==
    /\ loop_owner = t
    /\ t \in TaskIds
    /\ tasks[t].pc = "loop_end"
    /\ IF /\ tasks[t].idx < Len(tasks[t].retailers) - 1
          /\ tasks[t].outcomes[Len(tasks[t].outcomes)] = "completed"
       THEN /\ tasks' = SetTask(t, [tasks[t] EXCEPT !.pc = "cooldown",
                                                    !.cooldowns = @ + 1,
                                                    !.wait_time = COOLDOWN_SECONDS])
            /\ loop_owner' = 0
       ELSE /\ tasks' = SetTask(t, [tasks[t] EXCEPT !.pc = "finally"])
            /\ UNCHANGED loop_owner
    /\ NoClaim
    /\ UNCHANGED <<current_scrape, db_retailers, last_scraped, scrape_runs,
                   n_requests, n_config, holders, http_status>>
    /\ UNCHANGED unit_vars

\* A loop that sleeps after every target, the last one too.
run_scrape_loop_end_trailing_cooldown(t) ==
    /\ loop_owner = t
    /\ t \in TaskIds
    /\ tasks[t].pc = "loop_end"
    /\ IF tasks[t].idx < Len(tasks[t].retailers)
       THEN /\ tasks' = SetTask(t, [tasks[t] EXCEPT !.pc = "cooldown",
                                                    !.cooldowns = @ + 1,
                                                    !.wait_time = COOLDOWN_SECONDS])
            /\ loop_owner' = 0
       ELSE /\ tasks' = SetTask(t, [tasks[t] EXCEPT !.pc = "finally"])
            /\ UNCHANGED loop_owner
    /\ NoClaim
    /\ UNCHANGED <<current_scrape, db_retailers, last_scraped, scrape_runs,
                   n_requests, n_config, holders, http_status>>
    /\ UNCHANGED unit_vars

\* Lines 105-109: sleep before the next retailer, or return after the last.
run_scrape_loop_end(t) ==
    /\ loop_owner = t
    /\ t \in TaskIds
    /\ tasks[t].pc = "loop_end"
    /\ IF tasks[t].idx < Len(tasks[t].retailers) - 1
       THEN /\ tasks' = SetTask(t, [tasks[t] EXCEPT !.pc = "cooldown",
                                                    !.cooldowns = @ + 1,
                                                    !.wait_time = COOLDOWN_SECONDS])
            /\ loop_owner' = 0
       ELSE /\ tasks' = SetTask(t, [tasks[t] EXCEPT !.pc = "finally"])
            /\ UNCHANGED loop_owner
    /\ NoClaim
    /\ UNCHANGED <<current_scrape, db_retailers, last_scraped, scrape_runs,
                   n_requests, n_config, holders, http_status>>
    /\ UNCHANGED unit_vars

\* The cooldown sleep is over: the loop goes on with the next retailer.
run_scrape_cooldown_done(t) ==
    /\ loop_owner = 0
    /\ t \in TaskIds
    /\ tasks[t].pc = "cooldown"
    /\ tasks' = SetTask(t, [tasks[t] EXCEPT !.pc = "loop_head", !.idx = @ + 1,
                                            !.wait_time = 0])
    /\ loop_owner' = t
    /\ NoClaim
    /\ UNCHANGED <<current_scrape, db_retailers, last_scraped, scrape_runs,
                   n_requests, n_config, holders, http_status>>
    /\ UNCHANGED unit_vars

\* A finally that only runs when the loop was entered (the early return and
\* the ValueError leave before it).
run_scrape_finally_loop_only(t) ==
    /\ loop_owner = t
    /\ t \in TaskIds
    /\ tasks[t].pc = "finally"
    /\ IF tasks[t].retailers # <<>>
       THEN /\ current_scrape' = release_scrape_lock(current_scrape)
            /\ holders' = 0
       ELSE UNCHANGED <<current_scrape, holders>>
    /\ tasks' = SetTask(t, [tasks[t] EXCEPT !.pc = "returned"])
    /\ NoClaim
    /\ UNCHANGED <<db_retailers, last_scraped, scrape_runs, loop_owner,
                   n_requests, n_config, http_status>>
    /\ UNCHANGED unit_vars

\* Lines 111-112: the finally clears the lock on every way out of the try.
run_scrape_finally(t) ==
    /\ loop_owner = t
    /\ t \in TaskIds
    /\ tasks[t].pc = "finally"
    /\ current_scrape' = release_scrape_lock(current_scrape)
    /\ holders' = 0
    /\ tasks' = SetTask(t, [tasks[t] EXCEPT !.pc = "returned"])
    /\ NoClaim
    /\ UNCHANGED <<db_retailers, last_scraped, scrape_runs, loop_owner,
                   n_requests, n_config, http_status>>
    /\ UNCHANGED unit_vars

\* ----------------------------------------------- base.py: BaseScraper.run

AttemptOutcomes == {"completed", "blocked", "timeout", "error"}

ScraperFrame ==
    /\ NoClaim
    /\ UNCHANGED <<current_scrape, db_retailers, last_scraped, scrape_runs,
                   n_requests, n_config, holders, http_status>>

\* run(), lines 428, 435, 438: last_error takes the failed attempt's error.
RecordError(last_error, err) == err

\* _launch_browser (115-166), awaited at line 342: playwright, browser and
\* context are acquired in turn; a failure leaves those acquired so far
\* (held of them) and is caught by run() as an exception of the attempt.
launch_browser(t) ==
    /\ loop_owner = 0
    /\ t \in TaskIds
    /\ tasks[t].pc = "launch"
    /\ \E ok \in BOOLEAN, held \in 0..3 :
         /\ ok => held = 3
         /\ tasks' = SetTask(t,
              IF ok THEN [tasks[t] EXCEPT !.browser = 3, !.pc = "page"]
              ELSE [tasks[t] EXCEPT
                      !.browser = held, !.pc = "close", !.att_status = "error",
                      !.att_error = Err("error", tasks[t].attempt),
                      !.last_error = RecordError(@, Err("error", tasks[t].attempt))])
    /\ UNCHANGED loop_owner
    /\ ScraperFrame
    /\ UNCHANGED unit_vars

\* _attempt_scrape after the launch (343-395) and what run() does with its
\* outcome (417-439): a completed attempt fills the result; a blocked one, a
\* timeout and any other exception set last_error.  Then the finally.
attempt_scrape(t) ==
    /\ loop_owner = 0
    /\ t \in TaskIds
    /\ tasks[t].pc = "page"
    /\ \E outcome \in AttemptOutcomes :
         tasks' = SetTask(t,
            IF outcome = "completed"
            THEN [tasks[t] EXCEPT
                    !.pc = "close", !.att_status = outcome, !.att_error = None,
                    !.result = [status |-> "completed", error_message |-> None,
                                captured |-> TRUE]]
            ELSE [tasks[t] EXCEPT
                    !.pc = "close", !.att_status = outcome,
                    !.att_error = Err(outcome, tasks[t].attempt),
                    !.last_error = RecordError(@, Err(outcome, tasks[t].attempt))])
    /\ UNCHANGED loop_owner
    /\ ScraperFrame
    /\ UNCHANGED unit_vars

\* A loop that allows one attempt too many.
MoreAttempts_off_by_one(attempt) == attempt + 1 < MAX_RETRIES + 1

\* for attempt in range(MAX_RETRIES): is there an attempt after this one?
MoreAttempts(attempt) == attempt + 1 < MAX_RETRIES

\* _close_browser in the finally (168-182, 440-441), then: return the
\* completed result, or go to the next attempt, or give up as failed (443-448).
close_browser(t) ==
    /\ loop_owner = 0
    /\ t \in TaskIds
    /\ tasks[t].pc = "close"
    /\ LET tk == [tasks[t] EXCEPT !.browser = 0] IN
       IF tk.att_status = "completed"
       THEN /\ tasks' = SetTask(t, [tk EXCEPT !.pc = "finalize",
                                              !.outcomes = Append(@, "completed")])
            /\ loop_owner' = t
       ELSE IF MoreAttempts(tk.attempt)
       THEN /\ tasks' = SetTask(t, [tk EXCEPT !.pc = "backoff", !.attempt = @ + 1,
                                              !.wait_time = BackoffFor(tk.attempt + 1)])
            /\ UNCHANGED loop_owner
       ELSE /\ tasks' = SetTask(t, [tk EXCEPT
                                      !.pc = "finalize",
                                      !.outcomes = Append(@, "failed"),
                                      !.result = [status |-> "failed",
                                                  error_message |-> tk.last_error,
                                                  captured |-> FALSE]])
            /\ loop_owner' = t
    /\ ScraperFrame
    /\ UNCHANGED unit_vars

\* Lines 410-415: the backoff sleep is over, the next attempt starts.
retry_backoff_done(t) ==
    /\ loop_owner = 0
    /\ t \in TaskIds
    /\ tasks[t].pc = "backoff"
    /\ tasks' = SetTask(t, [tasks[t] EXCEPT !.pc = "launch", !.wait_time = 0,
                                            !.n_attempts = @ + 1])
    /\ UNCHANGED loop_owner
    /\ ScraperFrame
    /\ UNCHANGED unit_vars

\* --------- manager.py: one _scrape_single_retailer call, step by step

SingleStep ==
    /\ UNCHANGED app_vars
    /\ UNCHANGED <<scraper, storage, lock_calls, visit>>

SingleRaises(exc) == [single EXCEPT !.pc = "raised", !.exc = exc]

\* The call, for any retailer of the table.
single_call ==
    /\ single.pc = "idle"
    /\ \E slug \in RetailerSlugs :
         single' = [single EXCEPT !.pc = "create", !.slug = slug]
    /\ SingleStep

\* Lines 121-129: the row is added and committed as running.
single_create ==
    /\ single.pc = "create"
    /\ \/ single' = SingleRaises("DBError")
       \/ single' = [single EXCEPT
                       !.pc = "lookup",
                       !.row = <<[status |-> "running", error_message |-> None,
                                  completed_at |-> FALSE, screenshot_path |-> FALSE,
                                  html_path |-> FALSE]>>]
    /\ SingleStep

\* A lookup that returns for an unregistered retailer without touching the row.
single_lookup_forgets_row ==
    /\ single.pc = "lookup"
    /\ IF single.slug \notin SCRAPER_REGISTRY
       THEN single' = [single EXCEPT !.pc = "returned", !.ret = <<single.slug>>]
       ELSE single' = [single EXCEPT !.pc = "run"]
    /\ SingleStep

\* Lines 134-147: no scraper class: the row is finalized failed and the call
\* returns; else the scraper is built.
single_lookup ==
    /\ single.pc = "lookup"
    /\ IF single.slug \notin SCRAPER_REGISTRY
       THEN \/ single' = SingleRaises("DBError")
            \/ single' = [single EXCEPT
                            !.pc = "returned", !.ret = <<single.slug>>,
                            !.row = <<[@[1] EXCEPT !.status = "failed",
                                                   !.error_message = Err("no_scraper", 0),
                                                   !.completed_at = TRUE]>>]
       ELSE single' = [single EXCEPT !.pc = "run"]
    /\ SingleStep

\* Lines 149-158: scraper.run() returns a completed or failed result, with
\* the capture when completed; an exception out of it becomes a failed result.
single_run ==
    /\ single.pc = "run"
    /\ \E outcome \in {"completed", "failed", "raised"} :
         single' = [single EXCEPT
            !.pc = "save",
            !.scraper_raised = outcome = "raised",
            !.result = <<[status |-> IF outcome = "completed" THEN "completed" ELSE "failed",
                          error_message |-> CASE outcome = "completed" -> None
                                              [] outcome = "failed" -> Err("blocked", MAX_RETRIES - 1)
                                              [] OTHER -> Err("unexpected", 0),
                          captured |-> outcome = "completed"]>>]
    /\ SingleStep

\* Lines 160-189: screenshot and markup are stored when there is a capture,
\* the metadata always; each store may fail and is then only logged.
single_save ==
    /\ single.pc = "save"
    /\ \E ok \in SUBSET {"screenshot", "html", "metadata"} :
         single' = [single EXCEPT
            !.pc = "update",
            !.saved = IF single.result[1].captured THEN ok ELSE ok \cap {"metadata"}]
    /\ SingleStep

\* Lines 191-202: the row takes the result's status, error and paths, and
\* completed_at (the result's, or now).
single_update ==
    /\ single.pc = "update"
    /\ \/ single' = SingleRaises("DBError")
       \/ single' = [single EXCEPT
                       !.pc = "last_scraped",
                       !.row = <<[status |-> single.result[1].status,
                                  error_message |-> single.result[1].error_message,
                                  completed_at |-> TRUE,
                                  screenshot_path |-> "screenshot" \in single.saved,
                                  html_path |-> "html" \in single.saved]>>]
    /\ SingleStep

\* Lines 204-210: last_scraped on completed / partial, then the return.
single_last_scraped ==
    /\ single.pc = "last_scraped"
    /\ IF single.result[1].status \in {"completed", "partial"}
       THEN \/ single' = SingleRaises("DBError")
            \/ single' = [single EXCEPT !.pc = "returned", !.advanced = TRUE,
                                        !.ret = <<single.slug>>]
       ELSE single' = [single EXCEPT !.pc = "returned", !.ret = <<single.slug>>]
    /\ SingleStep

\* ------------------------------- base.py: one run() call, step by step

\* config.py 37-50 (three of the six entries), and the fixed agent used when
\* stealth is off (base.py 26).
STEALTH_USER_AGENTS == <<"chrome121_win", "chrome122_win", "chrome121_mac">>
USER_AGENT == "ecom_watch"

\* config.py 59-60, in seconds; delays are kept in milliseconds.
SCRAPE_MIN_DELAY == 3
SCRAPE_MAX_DELAY == 8
Seconds(n) == n * 1000

\* random.choice(user_agents): any entry of the pool.
RandomChoice(pool) == {pool[i] : i \in 1..Len(pool)}

\* Escalation that leaves the delay bounds as they are.
Widen_not_at_all(delay) == delay

\* Lines 339-340: delay * 1.5.
Widen(delay) == (delay * 3) \div 2

\* The order in which _close_browser closes.
CloseOrder == <<"context", "browser", "playwright">>

\* The position of a resource in an order.
IndexIn(order, kind) == CHOOSE i \in 1..Len(order) : order[i] = kind

ScraperStep ==
    /\ UNCHANGED app_vars
    /\ UNCHANGED <<storage, lock_calls, single, visit>>

\* run(), lines 405-408: a fresh result, no last_error, the first attempt.
BaseScraper_run ==
    /\ scraper.pc = "idle"
    /\ \E stealth \in BOOLEAN :
         scraper' = [NewScraper EXCEPT !.pc = "attempt", !.stealth = stealth]
    /\ ScraperStep

\* _attempt_scrape, lines 332-340: from the second attempt on, with stealth,
\* a user agent is drawn for the launch and both delay bounds are widened.
BaseScraper_attempt_scrape ==
    /\ scraper.pc = "attempt"
    /\ LET escalate == scraper.attempt >= 1 /\ scraper.stealth
       IN \E choice \in RandomChoice(STEALTH_USER_AGENTS) :
            scraper' = [scraper EXCEPT
                !.pc = "launch",
                !.ua = None,
                !.attempt_result = None,
                !.ua_override = IF escalate THEN <<choice>> ELSE None,
                !.min_delay = IF escalate THEN Widen(Seconds(SCRAPE_MIN_DELAY))
                              ELSE Seconds(SCRAPE_MIN_DELAY),
                !.max_delay = IF escalate THEN Widen(Seconds(SCRAPE_MAX_DELAY))
                              ELSE Seconds(SCRAPE_MAX_DELAY)]
    /\ ScraperStep

\* _launch_browser, lines 123-166: playwright, browser and context are
\* started in turn (the context with the override, else a drawn user agent,
\* else the fixed one), then the stealth patches are applied.  A step that
\* raises leaves what was started before it; run() catches the exception as
\* the attempt's error (438).
BaseScraper_launch_browser ==
    /\ scraper.pc = "launch"
    /\ \E raises_at \in {"playwright", "browser", "context", "stealth_patch", "nowhere"},
          choice \in RandomChoice(STEALTH_USER_AGENTS) :
         LET started == CASE raises_at = "playwright" -> {}
                          [] raises_at = "browser" -> {"playwright"}
                          [] raises_at = "context" -> {"playwright", "browser"}
                          [] OTHER -> {"playwright", "browser", "context"}
             ua == IF ~scraper.stealth THEN <<USER_AGENT>>
                   ELSE IF scraper.ua_override # None THEN scraper.ua_override
                   ELSE <<choice>>
             err == Err("error", scraper.attempt)
         IN /\ raises_at = "stealth_patch" => scraper.stealth
            /\ scraper' = [scraper EXCEPT
                 !.refs = started,
                 !.live = @ \cup {<<scraper.attempt, k>> : k \in started},
                 !.ua = IF "context" \in started THEN ua ELSE None,
                 !.pc = IF raises_at = "nowhere" THEN "page" ELSE "close",
                 !.att_status = IF raises_at = "nowhere" THEN "" ELSE "error",
                 !.att_error = IF raises_at = "nowhere" THEN None ELSE err,
                 !.last_error = IF raises_at = "nowhere" THEN @ ELSE err]
    /\ ScraperStep

\* The page an attempt ended on: its title and URL, told apart by attempt.
PageOf(attempt) == <<"page", attempt>>

\* The ScrapeResult _attempt_scrape returns (358-362, 366-370, 390-395): a
\* blocked one has the reason, the title and the URL of the blocking page and
\* no capture; a completed one the capture, title and URL and no error.
AttemptResult(attempt, status) ==
    [status |-> status,
     error_message |-> IF status = "blocked" THEN Err("blocked", attempt) ELSE None,
     page_title |-> <<PageOf(attempt)>>, page_url |-> <<PageOf(attempt)>>,
     captured |-> IF status = "completed" THEN <<attempt>> ELSE None]

\* A run() that copies the error of the earlier attempts into the completed
\* result.
BaseScraper_page_keeps_error ==
    /\ scraper.pc = "page"
    /\ \E outcome \in AttemptOutcomes :
         scraper' =
            IF outcome = "completed"
            THEN [scraper EXCEPT
                    !.pc = "close", !.att_status = outcome, !.att_error = None,
                    !.attempt_result = <<AttemptResult(scraper.attempt, outcome)>>,
                    !.result = [@ EXCEPT
                                  !.status = "completed",
                                  !.error_message = scraper.last_error,
                                  !.page_title = <<PageOf(scraper.attempt)>>,
                                  !.page_url = <<PageOf(scraper.attempt)>>,
                                  !.captured = <<scraper.attempt>>]]
            ELSE [scraper EXCEPT
                    !.pc = "close", !.att_status = outcome,
                    !.attempt_result = IF outcome = "blocked"
                                       THEN <<AttemptResult(scraper.attempt, outcome)>>
                                       ELSE None,
                    !.att_error = Err(outcome, scraper.attempt),
                    !.last_error = Err(outcome, scraper.attempt)]
    /\ ScraperStep

\* _attempt_scrape after the launch (343-395) and what run() does with its
\* outcome (417-439): a completed attempt fills the result; a blocked one, a
\* timeout and any other exception set last_error.
BaseScraper_page ==
    /\ scraper.pc = "page"
    /\ \E outcome \in AttemptOutcomes :
         scraper' =
            IF outcome = "completed"
            THEN [scraper EXCEPT
                    !.pc = "close", !.att_status = outcome, !.att_error = None,
                    !.attempt_result = <<AttemptResult(scraper.attempt, outcome)>>,
                    !.result = [@ EXCEPT
                                  !.status = "completed",
                                  !.page_title = <<PageOf(scraper.attempt)>>,
                                  !.page_url = <<PageOf(scraper.attempt)>>,
                                  !.captured = <<scraper.attempt>>]]
            ELSE [scraper EXCEPT
                    !.pc = "close", !.att_status = outcome,
                    !.attempt_result = IF outcome = "blocked"
                                       THEN <<AttemptResult(scraper.attempt, outcome)>>
                                       ELSE None,
                    !.att_error = Err(outcome, scraper.attempt),
                    !.last_error = Err(outcome, scraper.attempt)]
    /\ ScraperStep

\* What one attempt leaves in the history.
AttemptRecord(sc, close_error) ==
    [ua |-> sc.ua, min_delay |-> sc.min_delay, max_delay |-> sc.max_delay,
     status |-> sc.att_status, error |-> sc.att_error, close_error |-> close_error]

\* _close_browser, lines 170-182: context, browser and playwright are closed
\* in this order inside one try; a close that raises (raises_at) is logged
\* and the closes after it are skipped; the three references are dropped
\* either way.
CloseResources(sc, raises_at) ==
    LET skipped == IF raises_at = "nowhere" THEN {}
                   ELSE {k \in sc.refs :
                            IndexIn(CloseOrder, k) > IndexIn(CloseOrder, raises_at)}
    IN [sc EXCEPT !.refs = {},
                  !.live = @ \ {<<sc.attempt, k>> : k \in sc.refs \ skipped},
                  !.close_error = raises_at # "nowhere",
                  !.attempts = Append(@, AttemptRecord(sc, raises_at # "nowhere"))]

\* run() after the finally (417-425, 443-448): return the completed result,
\* go to the next attempt, or give up as failed with last_error.
AfterAttempt(sc) ==
    IF sc.att_status = "completed"
    THEN [sc EXCEPT !.pc = "returned"]
    ELSE IF MoreAttempts(sc.attempt)
    THEN [sc EXCEPT !.pc = "backoff", !.attempt = @ + 1]
    ELSE [sc EXCEPT !.pc = "returned",
                    !.result = [@ EXCEPT !.status = "failed",
                                         !.error_message = sc.last_error]]

\* A teardown whose exception leaves run() in place of the attempt's outcome.
BaseScraper_close_browser_propagating ==
    /\ scraper.pc = "close"
    /\ \E raises_at \in {"nowhere"} \cup scraper.refs :
         scraper' = IF raises_at = "nowhere"
                    THEN AfterAttempt(CloseResources(scraper, raises_at))
                    ELSE [CloseResources(scraper, raises_at) EXCEPT
                            !.pc = "returned", !.raised = "CloseError"]
    /\ ScraperStep

\* A run() that gives up as soon as an attempt times out.
BaseScraper_close_browser_timeout_fatal ==
    /\ scraper.pc = "close"
    /\ \E raises_at \in {"nowhere"} \cup scraper.refs :
         scraper' = IF scraper.att_status = "timeout"
                    THEN [CloseResources(scraper, raises_at) EXCEPT
                            !.pc = "returned",
                            !.result = [@ EXCEPT !.status = "failed",
                                                 !.error_message = scraper.last_error]]
                    ELSE AfterAttempt(CloseResources(scraper, raises_at))
    /\ ScraperStep

\* The finally of run() (440-441): _close_browser, then run() goes on.
BaseScraper_close_browser ==
    /\ scraper.pc = "close"
    /\ \E raises_at \in {"nowhere"} \cup scraper.refs :
         scraper' = AfterAttempt(CloseResources(scraper, raises_at))
    /\ ScraperStep

\* Lines 410-413: the backoff sleep before a retry is over.
BaseScraper_backoff ==
    /\ scraper.pc = "backoff"
    /\ scraper' = [scraper EXCEPT !.pc = "attempt"]
    /\ ScraperStep

\* --------------------- base.py: one _attempt_scrape call, step by step

\* wait_for_challenge_resolution: timeout_s = 10.0 (248), interval = 1.0 (255).
timeout_s == 10
interval == 1

\* The phrases the two detectors look for in the lower-cased title (235, 270).
challenge_titles == {"just a moment...", "attention required", "access denied"}
blocked_titles == {"access denied", "robot check", "are you a robot", "blocked"}
challenge_markers == {"cf-browser-verification", "challenge-platform",
                      "cf-challenge-running", "cf_chl_opt"}
BlockedStatuses == {403, 429, 503}

\* A title or a content is the set of the phrases that occur in it (`t in
\* title.lower()`, `marker in content`): an ordinary one has none.
Titles == {{}} \cup {{t} : t \in challenge_titles \cup blocked_titles}
Contents == {{}, {"challenge-platform"}}
Pages == [title : Titles, content : Contents]

\* What page.goto() returns: None, or a response with its status.
Responses == {None} \cup {<<st>> : st \in {200} \cup BlockedStatuses}

\* detect_cloudflare_challenge, lines 232-246.
detect_cloudflare_challenge(page) ==
    \/ page.title \cap challenge_titles # {}
    \/ page.content \cap challenge_markers # {}

\* detect_access_denied, lines 265-271.
detect_access_denied(page, response) ==
    \/ response # None /\ response[1] \in BlockedStatuses
    \/ page.title \cap blocked_titles # {}

VisitStep ==
    /\ UNCHANGED app_vars
    /\ UNCHANGED <<scraper, storage, lock_calls, single>>

\* An exception leaves _attempt_scrape (run() catches it, 434-439).
VisitRaises(exc) == [visit EXCEPT !.pc = "raised", !.exc = exc]

\* Lines 330-347: the call starts, in stealth mode or not; browser launched.
attempt_start ==
    /\ visit.pc = "idle"
    /\ \E stealth \in BOOLEAN :
         visit' = [visit EXCEPT !.pc = "navigate", !.stealth = stealth]
    /\ VisitStep

\* Line 351, navigate_to_deals (275-277): page.goto() times out, or answers
\* with a response, which is dropped, and a page.
attempt_navigate ==
    /\ visit.pc = "navigate"
    /\ \/ visit' = VisitRaises("PlaywrightTimeout")
       \/ \E response \in Responses, page \in Pages :
            visit' = [visit EXCEPT
                        !.pc = IF visit.stealth THEN "detect_challenge" ELSE "delay",
                        !.page = <<page>>, !.nav_page = <<page>>,
                        !.response = response,
                        !.ran = @ \cup {"navigate"}]
    /\ VisitStep

\* Lines 354-356: the challenge test, first.
attempt_detect_challenge ==
    /\ visit.pc = "detect_challenge"
    /\ visit' = [visit EXCEPT
                   !.pc = IF detect_cloudflare_challenge(visit.page[1])
                          THEN "wait" ELSE "detect_denied",
                   !.elapsed = 0,
                   !.ran = @ \cup {"detect_challenge"}]
    /\ VisitStep

\* The blocked result of lines 358-362.
ChallengeNotResolved(v) ==
    [v EXCEPT !.pc = "returned", !.resolved = <<FALSE>>,
              !.result = [@ EXCEPT !.status = "blocked",
                                   !.error_message = <<"challenge_not_resolved">>,
                                   !.page_title = <<v.page[1].title>>,
                                   !.page_url = <<"url">>]]

\* A wait that answers True when it gives up.
wait_for_challenge_resolution_lenient ==
    /\ visit.pc = "wait"
    /\ IF visit.elapsed < timeout_s
       THEN \E page \in Pages :
              visit' = [visit EXCEPT
                          !.elapsed = @ + interval,
                          !.polls = @ + 1,
                          !.page = <<page>>,
                          !.ran = @ \cup {"wait"},
                          !.resolved = IF detect_cloudflare_challenge(page)
                                       THEN None ELSE <<TRUE>>,
                          !.pc = IF detect_cloudflare_challenge(page)
                                 THEN "wait" ELSE "detect_denied"]
       ELSE visit' = [visit EXCEPT !.pc = "detect_denied", !.resolved = <<TRUE>>]
    /\ VisitStep

\* wait_for_challenge_resolution, lines 254-263, one turn of its loop: while
\* elapsed < timeout_s it sleeps interval, adds it to elapsed and looks at the
\* page again (whatever it shows by then), returning True when the challenge
\* is gone; else it returns False and lines 357-362 fail the attempt.
wait_for_challenge_resolution ==
    /\ visit.pc = "wait"
    /\ IF visit.elapsed < timeout_s
       THEN \E page \in Pages :
              visit' = [visit EXCEPT
                          !.elapsed = @ + interval,
                          !.polls = @ + 1,
                          !.page = <<page>>,
                          !.ran = @ \cup {"wait"},
                          !.resolved = IF detect_cloudflare_challenge(page)
                                       THEN None ELSE <<TRUE>>,
                          !.pc = IF detect_cloudflare_challenge(page)
                                 THEN "wait" ELSE "detect_denied"]
       ELSE visit' = ChallengeNotResolved(visit)
    /\ VisitStep

\* Lines 364-370: detect_access_denied(page), called without the response.
attempt_detect_denied ==
    /\ visit.pc = "detect_denied"
    /\ visit' =
         IF detect_access_denied(visit.page[1], None)
         THEN [visit EXCEPT
                 !.pc = "returned",
                 !.ran = @ \cup {"detect_denied"},
                 !.result = [@ EXCEPT !.status = "blocked",
                                      !.error_message = <<"access_denied",
                                                          visit.page[1].title,
                                                          visit.page[1].content>>,
                                      !.page_title = <<visit.page[1].title>>,
                                      !.page_url = <<"url">>]]
         ELSE [visit EXCEPT !.pc = "delay", !.ran = @ \cup {"detect_denied"}]
    /\ VisitStep

\* Lines 372-387: the rate-limit delay, dismiss_popups, scroll_for_content.
\* dismiss_popups swallows its exceptions (298-299); a scroll can time out.
attempt_delay ==
    /\ visit.pc = "delay"
    /\ visit' = [visit EXCEPT !.pc = "dismiss", !.ran = @ \cup {"delay"}]
    /\ VisitStep

attempt_dismiss_popups ==
    /\ visit.pc = "dismiss"
    /\ visit' = [visit EXCEPT !.pc = "scroll", !.ran = @ \cup {"dismiss"}]
    /\ VisitStep

attempt_scroll_for_content ==
    /\ visit.pc = "scroll"
    /\ \/ visit' = [visit EXCEPT !.pc = "capture", !.ran = @ \cup {"scroll"}]
       \/ visit' = [VisitRaises("PlaywrightTimeout") EXCEPT !.ran = @ \cup {"scroll"}]
    /\ VisitStep

\* Lines 389-395: screenshot, markup, title and URL of the page as it is.
attempt_capture ==
    /\ visit.pc = "capture"
    /\ \/ visit' = [visit EXCEPT
                       !.pc = "returned",
                       !.ran = @ \cup {"capture"},
                       !.result = [@ EXCEPT !.status = "completed",
                                            !.screenshot_bytes = visit.page,
                                            !.html_content = <<visit.page[1].content>>,
                                            !.page_title = <<visit.page[1].title>>,
                                            !.page_url = <<"url">>]]
       \/ visit' = [VisitRaises("Exception") EXCEPT !.ran = @ \cup {"capture"}]
    /\ VisitStep

\* ---------------------------------------------------- utils/storage.py

\* A string is the sequence of its characters; the alphabet has a letter, the
\* dot and both separators.
Chars == {"a", ".", "/", "\\"}

RECURSIVE StringsOfLen(_)
StringsOfLen(n) ==
    IF n = 0 THEN {<<>>}
    ELSE {Append(w, c) : w \in StringsOfLen(n - 1), c \in Chars}

\* The strings a request may carry for a path component.
Components == UNION {StringsOfLen(n) : n \in 0..MaxComponentLen}

\* Python's `sub in s` for strings.
Contains(s, sub) ==
    \E i \in 1..(Len(s) - Len(sub) + 1) : SubSeq(s, i, i + Len(sub) - 1) = sub

\* A check that looks for ".." only.
IsTraversal_dots_only(component) == Contains(component, <<".", ".">>)

\* Lines 86, 90, 137: ".." in c or "/" in c or "\\" in c.
IsTraversal(component) ==
    \/ Contains(component, <<".", ".">>)
    \/ Contains(component, <<"/">>)
    \/ Contains(component, <<"\\">>)

\* The file system, as the absolute paths of its regular files, a path being
\* the sequence of its names.  SCREENSHOTS_DIR is /a; one screenshot is kept
\* under it and one file lies outside of it.
SCREENSHOTS_DIR == << <<"a">> >>
FsFiles == { SCREENSHOTS_DIR \o << <<"a">>, <<"a", "a">>, <<"a", ".">> >>,
             << <<"a", "a">>, <<"a">> >> }

\* The names a component is made of (the operating system splits it at "/").
RECURSIVE SplitNames(_, _)
SplitNames(component, name) ==
    IF component = <<>> THEN <<name>>
    ELSE IF Head(component) = "/"
         THEN <<name>> \o SplitNames(Tail(component), <<>>)
         ELSE SplitNames(Tail(component), Append(name, Head(component)))

\* Path resolution by the operating system: "" and "." stay, ".." goes up.
RECURSIVE Resolve(_, _)
Resolve(path, names) ==
    IF names = <<>> THEN path
    ELSE LET n == Head(names)
         IN IF n = <<>> \/ n = <<".">> THEN Resolve(path, Tail(names))
            ELSE IF n = <<".", ".">>
                 THEN Resolve(IF path = <<>> THEN path ELSE SubSeq(path, 1, Len(path) - 1),
                              Tail(names))
                 ELSE Resolve(Append(path, n), Tail(names))

\* directory / component, as the file system sees it.
Join(dir, component) == Resolve(dir, SplitNames(component, <<>>))

IsPrefix(p, q) == Len(p) <= Len(q) /\ SubSeq(q, 1, Len(p)) = p

\* Path.exists() and is_dir() for a directory: some file lies below it.
DirExists(dir) == \E f \in FsFiles : IsPrefix(dir, f) /\ Len(dir) < Len(f)

\* The directories directly inside a directory.
SubDirs(dir) ==
    {SubSeq(f, 1, Len(dir) + 1) : f \in {g \in FsFiles : IsPrefix(dir, g)
                                                        /\ Len(g) > Len(dir) + 1}}

StorageStep ==
    /\ UNCHANGED app_vars
    /\ UNCHANGED <<scraper, lock_calls, single, visit>>

\* get_screenshot_filepath (130-144): every component is checked, then the
\* path is built and looked up.  found: a Path was returned (not None).
get_screenshot_filepath(retailer, date_str, filename) ==
    /\ StorageStep
    /\ storage' =
         IF \E c \in {retailer, date_str, filename} : IsTraversal(c)
         THEN [fn |-> "get_screenshot_filepath",
               args |-> <<retailer, date_str, filename>>,
               found |-> FALSE, listed |-> {}, fs_accesses |-> 0]
         ELSE LET filepath == Join(Join(Join(SCREENSHOTS_DIR, retailer), date_str),
                                   filename)
              IN [fn |-> "get_screenshot_filepath",
                  args |-> <<retailer, date_str, filename>>,
                  found |-> filepath \in FsFiles, listed |-> {},
                  fs_accesses |-> IF filepath \in FsFiles THEN 2 ELSE 1]

\* `if retailer_slug:` for an Optional[str]: neither None nor "".
Truthy(opt) == opt # None /\ opt[1] # <<>>

\* list_screenshots (82-127): both filters are checked when given; then the
\* retailer directories and their date directories are walked.  listed: the
\* files of the answer, as <<retailer dir, date dir, file>> paths (the order
\* of the list is left out).
list_screenshots(retailer_slug, scrape_date) ==
    /\ StorageStep
    /\ storage' =
         IF \/ Truthy(retailer_slug) /\ IsTraversal(retailer_slug[1])
            \/ Truthy(scrape_date) /\ IsTraversal(scrape_date[1])
         THEN [fn |-> "list_screenshots", args |-> <<retailer_slug, scrape_date>>,
               found |-> FALSE, listed |-> {}, fs_accesses |-> 0]
         ELSE LET retailer_dirs ==
                      IF Truthy(retailer_slug)
                      THEN {Join(SCREENSHOTS_DIR, retailer_slug[1])}
                      ELSE SubDirs(SCREENSHOTS_DIR)
                  date_dirs(rd) ==
                      IF Truthy(scrape_date)
                      THEN {Join(rd, scrape_date[1])}
                      ELSE SubDirs(rd)
                  walked == {rd \in retailer_dirs : DirExists(rd)}
                  files == {f \in FsFiles :
                              \E rd \in walked : \E dd \in date_dirs(rd) :
                                 Len(f) = Len(dd) + 1 /\ IsPrefix(dd, f)}
              IN [fn |-> "list_screenshots", args |-> <<retailer_slug, scrape_date>>,
                  found |-> FALSE, listed |-> files,
                  fs_accesses |-> 1 + Cardinality(retailer_dirs) + Cardinality(files)]

\* ------------------------------------------------------- specifications

TaskSlots == 1..MaxRequests

\* The steps of the invocations under way.
TaskNext ==
    \/ \E t \in TaskSlots : background_scrape_start(t)
    \/ \E t \in TaskSlots : background_scrape_end(t)
    \/ \E t \in TaskSlots : run_scrape_guard(t)
    \/ \E t \in TaskSlots : run_scrape_resolve(t)
    \/ \E t \in TaskSlots : run_scrape_set_total(t)
    \/ \E t \in TaskSlots : run_scrape_loop_head(t)
    \/ \E t \in TaskSlots : run_scrape_loop_progress(t)
    \/ \E t \in TaskSlots : scrape_single_retailer_create(t)
    \/ \E t \in TaskSlots : scrape_single_retailer_no_scraper(t)
    \/ \E t \in TaskSlots : launch_browser(t)
    \/ \E t \in TaskSlots : attempt_scrape(t)
    \/ \E t \in TaskSlots : close_browser(t)
    \/ \E t \in TaskSlots : retry_backoff_done(t)
    \/ \E t \in TaskSlots : scrape_single_retailer_finalize(t)
    \/ \E t \in TaskSlots : run_scrape_set_completed(t)
    \/ \E t \in TaskSlots : run_scrape_set_progress(t)
    \/ \E t \in TaskSlots : run_scrape_loop_end(t)
    \/ \E t \in TaskSlots : run_scrape_cooldown_done(t)
    \/ \E t \in TaskSlots : run_scrape_finally(t)

\* The application: requests reach run_scrape through the trigger endpoint.
Next ==
    \/ \E slug \in RequestSlugs, tt \in TriggerTypes : trigger_scrape(slug, tt)
    \/ \E slug \in RetailerSlugs, st \in {"enabled", "disabled", "absent"} :
         ConfigUpdate(slug, st)
    \/ TaskNext

Spec == Init /\ [][Next]_vars

\* The application and, beside it, callers that await run_scrape directly,
\* over a table of one enabled retailer with a scraper and one without.
InitDirect ==
    InitOver([s \in RetailerSlugs |->
                IF s \in {"bestbuy", "newshop"} THEN "enabled" ELSE "disabled"])

NextDirect ==
    \/ \E slug \in RequestSlugs, tt \in TriggerTypes : trigger_scrape(slug, tt)
    \/ \E slug \in RequestSlugs, tt \in DirectTriggerTypes : run_scrape_direct(slug, tt)
    \/ \E t \in TaskSlots : run_scrape_direct_end(t)
    \/ TaskNext

SpecDirect == InitDirect /\ [][NextDirect]_vars

\* One run() call on one scraper, with or without stealth.
NextScraper ==
    \/ BaseScraper_run
    \/ BaseScraper_attempt_scrape
    \/ BaseScraper_launch_browser
    \/ BaseScraper_page
    \/ BaseScraper_close_browser
    \/ BaseScraper_backoff

InitScraper == InitOver(SeededRetailers("enabled"))

SpecScraper == InitScraper /\ [][NextScraper]_vars

\* GET /api/screenshots/{retailer}/{date}/{filename} (api/scraping.py
\* 130-140) with any components.  The storage functions keep no state of
\* their own: a behaviour looks at one request, on the file system above.
serve_screenshot ==
    /\ storage = NoStorageCall
    /\ \E retailer \in Components, date_str \in Components, filename \in Components :
         get_screenshot_filepath(retailer, date_str, filename)

\* GET /api/screenshots (api/scraping.py 120-127) with any filters.
get_screenshots ==
    /\ storage = NoStorageCall
    /\ \E retailer_slug \in {None} \cup {<<c>> : c \in Components},
          scrape_date \in {None} \cup {<<c>> : c \in Components} :
         list_screenshots(retailer_slug, scrape_date)

NextStorage ==
    \/ serve_screenshot
    \/ get_screenshots

SpecStorage == InitScraper /\ [][NextStorage]_vars

\* The lock functions of manager.py called in any order by their callers
\* (the trigger endpoint claims, _background_scrape and run_scrape release,
\* run_scrape writes the dict while it runs).
LockStep ==
    UNCHANGED <<db_retailers, last_scraped, scrape_runs, tasks, loop_owner,
                n_requests, n_config, http_status, scraper, storage, single, visit>>

call_claim_scrape_lock ==
    /\ lock_calls.n < MaxLockCalls
    /\ LET r == claim_scrape_lock(current_scrape) IN
         /\ current_scrape' = r.cs
         /\ ClaimCalled(r.ret)
    /\ lock_calls' = [lock_calls EXCEPT !.n = @ + 1, !.releases = 0,
                                        !.releases_before_claim = lock_calls.releases]
    /\ LockStep

call_release_scrape_lock ==
    /\ lock_calls.n < MaxLockCalls
    /\ current_scrape' = release_scrape_lock(current_scrape)
    /\ holders' = 0
    /\ lock_calls' =
         [lock_calls EXCEPT
            !.n = @ + 1,
            !.releases = @ + 1,
            !.held = IF lock_calls.releases = 0 THEN current_scrape # None ELSE @,
            !.written = IF lock_calls.releases = 0
                        THEN current_scrape \notin {None, <<FreshScrape>>}
                        ELSE @]
    /\ NoClaim
    /\ LockStep

\* run_scrape lines 91-103: the holder's writes to the dict, two targets.
holder_writes ==
    /\ current_scrape # None
    /\ \E key \in {"current_retailer", "progress", "retailers_completed",
                    "retailers_total"} :
         \E value \in CASE key = "current_retailer" -> {"bestbuy", "staples"}
                        [] key = "progress" -> {<<0, 2>>, <<1, 2>>, <<2, 2>>}
                        [] OTHER -> 1..2 :
            current_scrape' = <<[current_scrape[1] EXCEPT ![key] = value]>>
    /\ NoClaim
    /\ UNCHANGED <<holders, lock_calls>>
    /\ LockStep

NextLock ==
    \/ call_claim_scrape_lock
    \/ call_release_scrape_lock
    \/ holder_writes

SpecLock == InitScraper /\ [][NextLock]_vars

\* One _scrape_single_retailer call for any retailer, scraper outcome and
\* failure of the stores and of the commits.
NextSingle ==
    \/ single_call
    \/ single_create
    \/ single_lookup
    \/ single_run
    \/ single_save
    \/ single_update
    \/ single_last_scraped

SpecSingle == InitScraper /\ [][NextSingle]_vars

\* One _attempt_scrape call on any page the site may answer with.
NextAttempt ==
    \/ attempt_start
    \/ attempt_navigate
    \/ attempt_detect_challenge
    \/ wait_for_challenge_resolution
    \/ attempt_detect_denied
    \/ attempt_delay
    \/ attempt_dismiss_popups
    \/ attempt_scroll_for_content
    \/ attempt_capture

SpecAttempt == InitScraper /\ [][NextAttempt]_vars

\* --------------------------------------------------------------- properties

\* The places of an invocation that is inside run_scrape.
LoopPcs == {"loop_head", "loop_progress", "create_run", "no_scraper", "launch",
            "page", "close", "backoff", "finalize", "set_completed",
            "set_progress", "loop_end", "cooldown"}

RunScrapePcs == {"enter", "resolve", "set_total", "finally"} \cup LoopPcs

\* The ScrapeRun rows an invocation created, in the order of creation.
RowsOf(t) == SelectSeq(scrape_runs, LAMBDA r : r.task = t)

\* The float p = <<numerator, denominator>> equals c / n.
IsRatio(p, c, n) == n # 0 /\ p[1] * n = c * p[2]

\* C1: single-flight claim.  A claim_scrape_lock() call made while the lock is
\* held returns False, and between two releases
\* at most one claim returns True (holders counts the claims that returned
\* True since the latest release).
C1_SingleFlight ==
    /\ holders <= 1
    /\ holders = 1 => current_scrape # None
    /\ n_claims > 0 /\ last_claim.held => ~last_claim.ret

\* C1, its case: a second claim arrived while the first claim's lock was held
\* and was refused (the endpoint answered 409).
C1_Witness ==
    /\ n_claims >= 2
    /\ last_claim.held /\ ~last_claim.ret
    /\ holders = 1
    /\ http_status = 409

\* C2: no two runs interleave.  As the claim states it: at no time are two
\* run_scrape invocations both between their start and their return, direct
\* callers included (an invocation counts once it is past the entry guard).
C2_NoTwoRunsInterleave ==
    Cardinality({t \in TaskIds : tasks[t].pc \in RunScrapePcs \ {"enter"}}) <= 1

\* C3: lock hygiene.  Immediately after run_scrape returned or raised, on
\* whichever path, get_scrape_status()["running"] is False.
C3_LockHygiene ==
    \A t \in TaskIds :
        tasks[t].pc = "returned" => ~get_scrape_status(current_scrape).running

\* C3, its case: an invocation has just raised out of the per-target loop with
\* one target already processed, after an earlier invocation raised during
\* target resolution.
C3_Witness ==
    \E t1, t2 \in TaskIds :
        /\ tasks[t1].pc = "done" /\ tasks[t1].exc = "ValueError"
        /\ tasks[t2].pc = "returned" /\ tasks[t2].exc = "DBError"
        /\ Len(tasks[t2].run_ids) = 1
        /\ ~get_scrape_status(current_scrape).running

\* An invocation owns a claim from the moment its claim succeeded until its
\* run_scrape has returned or raised (never, when run_scrape was not reached).
Owns(t) ==
    /\ tasks[t].claimed
    /\ ~(tasks[t].pc \in {"returned", "done"} /\ tasks[t].exc # "SessionError")

\* C4: the orchestrator state is non-null if and only if a run is in
\* progress.  As the claim states it: _current_scrape is non-null exactly from
\* a successful claim until the run_scrape owning that claim has returned or
\* raised, and never null while an invocation is processing targets.
C4_StateIffRunInProgress ==
    /\ (current_scrape # None) <=> (\E t \in TaskIds : Owns(t))
    /\ \A t \in TaskIds : tasks[t].pc \in LoopPcs => current_scrape # None

\* C5: a direct call while another run holds the lock fails loudly.  As the
\* claim states it: an invocation that entered run_scrape without a claim of
\* its own while the lock was held ends in RuntimeError and goes no further.
C5_DirectCallFailsLoudly ==
    \A t \in TaskIds :
        tasks[t].entered_held =>
            /\ tasks[t].exc = "RuntimeError"
            /\ tasks[t].pc \in {"enter", "returned"}

\* C6: failure isolation.  Every target an invocation is through has its own
\* ScrapeRun row, finalized with the status its scraper returned (failed when
\* every attempt failed or no scraper exists); a scraper failure never leaves
\* run_scrape as an exception; and an invocation that returns normally over N
\* resolved targets has processed all N.
C6_FailureIsolation ==
    \A t \in TaskIds :
        LET tk == tasks[t]
            rows == RowsOf(t)
        IN /\ tk.exc \in {"", "ValueError", "DBError", "SessionError"}
           /\ Len(tk.run_ids) <= Len(rows)
           /\ Len(tk.run_ids) <= Len(tk.outcomes)
           /\ \A j \in 1..Len(tk.run_ids) :
                /\ rows[j].id = tk.run_ids[j]
                /\ rows[j].retailer = tk.retailers[j]
                /\ rows[j].status = tk.outcomes[j]
                /\ rows[j].status = "failed" <=> rows[j].error_message # None
                /\ rows[j].completed_at
           /\ tk.pc = "returned" /\ tk.exc = "" =>
                /\ Len(tk.run_ids) = Len(tk.retailers)
                /\ Len(rows) = Len(tk.retailers)

\* C6, its case: a run over three targets returned normally although the
\* scraper of the first target failed on every attempt; the targets after it
\* were processed and the second one completed.
C6_Witness ==
    \E t \in TaskIds :
        /\ tasks[t].pc = "returned" /\ tasks[t].exc = ""
        /\ Len(tasks[t].retailers) = 3
        /\ RowsOf(t)[1].status = "failed"
        /\ RowsOf(t)[1].error_message = Err("blocked", MAX_RETRIES - 1)
        /\ RowsOf(t)[2].status = "completed"
        /\ Len(RowsOf(t)) = 3

\* C7: an unknown or disabled single target.  When target resolution meets a
\* missing or disabled row, the invocation raises ValueError with no target
\* processed and no ScrapeRun row created, and the lock is released when it
\* has raised.
C7_ConfigErrorAborts ==
    \A t \in TaskIds :
        tasks[t].seen \in {"absent", "disabled"} =>
            /\ tasks[t].exc = "ValueError"
            /\ tasks[t].pc \in {"finally", "returned"}
            /\ tasks[t].retailers = <<>>
            /\ tasks[t].run_ids = <<>>
            /\ RowsOf(t) = <<>>
            /\ tasks[t].pc = "returned" => current_scrape = None

\* C7, its case: a retailer was disabled between the endpoint's validation and
\* the background task's resolution; run_scrape has raised ValueError.
C7_Witness ==
    \E t \in TaskIds :
        /\ tasks[t].seen = "disabled"
        /\ tasks[t].pc = "returned" /\ tasks[t].exc = "ValueError"
        /\ n_config = 1
        /\ current_scrape = None

\* C8 as the claim states it: in every state of the run, the state right after
\* the claim included, progress equals retailers_completed / retailers_total.
C8_ProgressIsRatioInEveryState ==
    current_scrape # None =>
        LET s == get_scrape_status(current_scrape)
        IN IsRatio(s.progress, s.retailers_completed, s.retailers_total)

\* C8, amended: retailers_completed is the number of targets the run is
\* through (one behind between lines 99 and 101), so it takes 0,1,...,N in
\* order; while retailers_total is still 0 progress is 0.0 and
\* retailers_completed is 0; once the total is set progress equals
\* retailers_completed / retailers_total, except between lines 101 and 102,
\* where it still is (retailers_completed - 1) / retailers_total.
C8_ProgressFollowsCompleted ==
    LET s == get_scrape_status(current_scrape)
    IN /\ s.retailers_total = 0 => s.retailers_completed = 0 /\ s.progress = <<0, 1>>
       /\ \A t \in TaskIds :
            tasks[t].pc \in RunScrapePcs \ {"enter"} =>
                LET tk == tasks[t]
                    lag == IF tk.pc = "set_completed" THEN 1 ELSE 0
                IN /\ s.running
                   /\ s.retailers_completed = Len(tk.run_ids) - lag
                   /\ s.retailers_completed <= Len(tk.retailers)
                   /\ s.retailers_total \in {0, Len(tk.retailers)}
                   /\ tk.pc \in LoopPcs => s.retailers_total = Len(tk.retailers)
                   /\ s.retailers_total > 0 =>
                        IF tk.pc = "set_progress"
                        THEN IsRatio(s.progress, s.retailers_completed - 1,
                                     s.retailers_total)
                        ELSE IsRatio(s.progress, s.retailers_completed,
                                     s.retailers_total)

\* C8, its case: a run over three targets is through all of them and about to
\* release: retailers_completed = 3 and progress = 3/3.
C8_Witness ==
    \E t \in TaskIds :
        /\ tasks[t].pc = "finally" /\ tasks[t].exc = ""
        /\ Len(tasks[t].retailers) = 3
        /\ current_scrape # None
        /\ get_scrape_status(current_scrape).retailers_completed = 3
        /\ get_scrape_status(current_scrape).progress = <<3, 3>>

\* Scenario A: a run over three enabled targets, each completed by its first
\* attempt, with nothing raised.
ScenarioA(t) ==
    /\ Len(tasks[t].retailers) = 3
    /\ tasks[t].first_try
    /\ tasks[t].exc = ""

\* Three ScrapeRun rows of the invocation, all completed.
ThreeCompleted(t) ==
    /\ Len(RowsOf(t)) = 3
    /\ \A j \in 1..3 : RowsOf(t)[j].status = "completed" /\ RowsOf(t)[j].completed_at

\* C9 as the claim states it: when the Scenario A run has ended there are 3
\* completed run records, the status is idle, and the status reports
\* retailers_completed = retailers_total = 3.
C9_ScenarioAFinalCounters ==
    \A t \in TaskIds :
        tasks[t].pc = "returned" /\ ScenarioA(t) =>
            LET s == get_scrape_status(current_scrape)
            IN /\ ThreeCompleted(t)
               /\ ~s.running
               /\ s.retailers_completed = 3 /\ s.retailers_total = 3

\* C9, amended: when the Scenario A run has ended there are 3 completed run
\* records and the status is the idle one, which reports
\* retailers_completed = retailers_total = 0; the counters read 3 and 3 in the
\* run's last state before the release.
C9_ScenarioA ==
    \A t \in TaskIds :
        LET s == get_scrape_status(current_scrape)
        IN /\ tasks[t].pc = "returned" /\ ScenarioA(t) =>
                /\ ThreeCompleted(t)
                /\ ~s.running
                /\ s.retailers_completed = 0 /\ s.retailers_total = 0
                /\ s.progress = <<0, 1>>
           /\ tasks[t].pc = "finally" /\ ScenarioA(t) =>
                /\ ThreeCompleted(t)
                /\ s.running
                /\ s.retailers_completed = 3 /\ s.retailers_total = 3

\* C9, its case: the Scenario A run has returned.
C9_Witness ==
    \E t \in TaskIds :
        /\ tasks[t].pc = "returned" /\ ScenarioA(t)
        /\ ThreeCompleted(t)
        /\ current_scrape = None

\* C10: bounded retries.  run() never starts more than MAX_RETRIES attempts
\* for one target; when it returns without a completed attempt it has made
\* MAX_RETRIES attempts and returns failed with the error of the last one.
C10_BoundedRetries ==
    \A t \in TaskIds :
        LET tk == tasks[t]
        IN /\ tk.n_attempts <= MAX_RETRIES
           /\ tk.pc = "finalize" =>
                /\ tk.result.status = "failed" <=> tk.att_status # "completed"
                /\ tk.result.status = "failed" =>
                     /\ tk.n_attempts = MAX_RETRIES
                     /\ tk.att_error # None
                     /\ tk.result.error_message = tk.att_error

\* C10, its case: run() returned failed after MAX_RETRIES attempts, the last
\* of them a timeout, whose error is the one returned.
C10_Witness ==
    \E t \in TaskIds :
        /\ tasks[t].pc = "finalize"
        /\ tasks[t].result.status = "failed"
        /\ tasks[t].n_attempts = MAX_RETRIES
        /\ tasks[t].att_status = "timeout"
        /\ tasks[t].result.error_message = Err("timeout", MAX_RETRIES - 1)

\* The places of run() from which another attempt is still to come or under way.
AttemptPcs == {"backoff", "attempt", "launch", "page", "close"}

\* C11: guaranteed teardown.  As the claim states it: whenever an attempt is
\* about to begin, and when run() has returned, no playwright, browser or
\* context started by an attempt is still open; during an attempt only what
\* that attempt started is open.
C11_GuaranteedTeardown ==
    /\ scraper.pc \in {"backoff", "attempt", "launch", "returned"} => scraper.live = {}
    /\ \A r \in scraper.live : r[1] = scraper.attempt

\* C12: a teardown failure never masks the attempt's outcome.  No exception
\* leaves run() because of a teardown; when the teardown of the latest
\* finished attempt raised, a completed attempt is still returned as completed
\* with its own capture, and a blocked, timed-out or errored attempt still has
\* its own error in last_error and is followed by the next attempt, or, if it
\* was the last one, by a failed result carrying that error.
C12_TeardownFailureKeepsOutcome ==
    /\ scraper.raised = ""
    /\ Len(scraper.attempts) > 0 /\ scraper.close_error =>
         LET k == Len(scraper.attempts)
             a == scraper.attempts[k]
         IN /\ a.close_error
            /\ IF a.status = "completed"
               THEN /\ scraper.pc = "returned"
                    /\ scraper.result = [status |-> "completed", error_message |-> None,
                                         page_title |-> <<PageOf(k - 1)>>,
                                         page_url |-> <<PageOf(k - 1)>>,
                                         captured |-> <<k - 1>>]
               ELSE /\ a.error = Err(a.status, k - 1)
                    /\ IF k < MAX_RETRIES
                       THEN /\ scraper.pc \in AttemptPcs
                            /\ scraper.attempt = k
                            /\ scraper.pc \in {"backoff", "attempt", "launch", "page"}
                                  => scraper.last_error = a.error
                       ELSE /\ scraper.pc = "returned"
                            /\ scraper.result.status = "failed"
                            /\ scraper.result.error_message = a.error

\* C12, its case: the teardown raised after a blocked first attempt and again
\* after the second attempt, which completed; run() returned completed.
C12_Witness ==
    /\ scraper.pc = "returned"
    /\ Len(scraper.attempts) = 2
    /\ scraper.attempts[1].status = "blocked" /\ scraper.attempts[1].close_error
    /\ scraper.attempts[2].status = "completed" /\ scraper.attempts[2].close_error
    /\ scraper.result.status = "completed"

\* C13: every non-completed attempt is retryable.  No exception leaves run();
\* an attempt that ended blocked, timed out or raised (a failed launch
\* included) and was not the MAX_RETRIES-th is followed by another attempt;
\* run() returns only after a completed attempt or after MAX_RETRIES attempts.
C13_NonCompletedIsRetried ==
    /\ scraper.raised = ""
    /\ \A i \in 1..Len(scraper.attempts) :
         LET a == scraper.attempts[i]
         IN /\ a.status \in AttemptOutcomes
            /\ a.status # "completed" /\ i < MAX_RETRIES =>
                 \/ Len(scraper.attempts) > i
                 \/ scraper.pc \in AttemptPcs /\ scraper.attempt = i
    /\ scraper.pc = "returned" =>
         \/ scraper.attempts[Len(scraper.attempts)].status = "completed"
         \/ /\ Len(scraper.attempts) = MAX_RETRIES
            /\ scraper.result.status = "failed"

\* C13, its case: a blocked attempt, then a timeout, then an unexpected
\* exception; run() returned failed after the three of them.
C13_Witness ==
    /\ scraper.pc = "returned"
    /\ Len(scraper.attempts) = MAX_RETRIES
    /\ scraper.attempts[1].status = "blocked"
    /\ scraper.attempts[2].status = "timeout"
    /\ scraper.attempts[3].status = "error"
    /\ scraper.result.status = "failed"
    /\ scraper.raised = ""

\* C14: a failed claim changes nothing.  Every claim_scrape_lock() call made
\* while a run is active returns False, the endpoint answers 409, and the
\* dict of the active run (current_retailer, progress, retailers_completed,
\* retailers_total), the queued and running invocations and the run records
\* are the same after the call as before it.
C14_FailedClaimChangesNothing ==
    [][(n_claims' = n_claims + 1 /\ current_scrape # None) =>
          /\ ~last_claim'.ret
          /\ http_status' = 409
          /\ current_scrape' = current_scrape
          /\ get_scrape_status(current_scrape') = get_scrape_status(current_scrape)
          /\ tasks' = tasks
          /\ scrape_runs' = scrape_runs
          /\ holders' = holders]_vars

\* C14, its case: a request was refused with 409 while the active run was at
\* work on a target after having finished one.
C14_Witness ==
    /\ http_status = 409
    /\ last_claim.held /\ ~last_claim.ret
    /\ current_scrape # None
    /\ get_scrape_status(current_scrape).retailers_completed >= 1
    /\ get_scrape_status(current_scrape).current_retailer \in RetailerSlugs

\* A request the validation of the endpoint must refuse.
FailsValidation(slug, trigger_type) ==
    \/ trigger_type \notin {"manual", "scheduled"}
    \/ slug # "all" /\ slug \notin RetailerSlugs
    \/ slug # "all" /\ slug \in RetailerSlugs /\ db_retailers[slug] # "enabled"

\* C15: a request that fails validation is rejected before the lock is
\* claimed.  A trigger request with a trigger_type other than manual or
\* scheduled, or naming an unknown or disabled retailer, is answered 400;
\* claim_scrape_lock is not called, nothing is queued and the lock state is
\* the same after the request as before it.
C15_InvalidRequestRejectedBeforeClaim ==
    [][\A slug \in RequestSlugs, tt \in TriggerTypes :
          (trigger_scrape(slug, tt) /\ FailsValidation(slug, tt)) =>
              /\ http_status' = 400
              /\ n_claims' = n_claims
              /\ last_claim' = last_claim
              /\ holders' = holders
              /\ current_scrape' = current_scrape
              /\ tasks' = tasks]_vars

\* C15, its case: a request was rejected with 400 while a run that had
\* claimed the lock was queued or at work; the lock is still that run's.
C15_Witness ==
    /\ http_status = 400
    /\ n_requests = 2
    /\ n_claims = 1 /\ last_claim.ret
    /\ holders = 1
    /\ current_scrape # None
    /\ Len(tasks) = 1

\* C16: path safety.  For a request in which some component contains "..",
\* "/" or "\", get_screenshot_filepath returns None and list_screenshots
\* returns the empty list, with no file-system access made.
C16_PathSafety ==
    (/\ storage.fn \in {"get_screenshot_filepath", "list_screenshots"}
     /\ \E i \in 1..Len(storage.args) :
          LET c == IF storage.fn = "list_screenshots"
                   THEN (IF storage.args[i] = None THEN <<>> ELSE storage.args[i][1])
                   ELSE storage.args[i]
          IN \/ \E j \in 1..Len(c) : c[j] \in {"/", "\\"}
             \/ \E j \in 1..(Len(c) - 1) : c[j] = "." /\ c[j + 1] = ".")
    => /\ ~storage.found
       /\ storage.listed = {}
       /\ storage.fs_accesses = 0

\* C16, its case: get_screenshot_filepath was asked for the file outside the
\* screenshots directory through a ".." component and answered None without
\* touching the file system.
C16_Witness ==
    /\ storage.fn = "get_screenshot_filepath"
    /\ storage.args = << <<".", ".">>, <<"a", "a">>, <<"a">> >>
    /\ ~storage.found
    /\ storage.fs_accesses = 0

\* The answer of get_scrape_status() when no scrape is running.
IdleShape ==
    [running |-> FALSE, current_retailer |-> NoRetailer, progress |-> <<0, 1>>,
     retailers_completed |-> 0, retailers_total |-> 0]

\* C17: release_scrape_lock() clears the state whatever it finds and is
\* idempotent: after one release or several in a row, made while the lock was
\* held or not, get_scrape_status() returns the idle shape (running False,
\* current_retailer None, progress 0.0, retailers_completed 0,
\* retailers_total 0), and a claim that follows the releases succeeds.
C17_ReleaseClearsAndIsIdempotent ==
    /\ lock_calls.releases > 0 => get_scrape_status(current_scrape) = IdleShape
    /\ (lock_calls.releases = 0 /\ lock_calls.releases_before_claim > 0)
          => last_claim.ret /\ ~last_claim.held

\* C17, its case: the lock was held and its dict written to, it was released
\* twice in a row (the second time with nothing held), and the claim made
\* after that succeeded.
C17_Witness ==
    /\ lock_calls.releases = 0
    /\ lock_calls.releases_before_claim >= 2
    /\ lock_calls.held
    /\ lock_calls.written
    /\ last_claim.ret
    /\ current_scrape = <<FreshScrape>>

\* The places of a task where a scraper is at work for the current target.
ScraperPcs == {"launch", "page", "close", "backoff"}

\* C18, first part: targets are processed one after the other.  Of the rows a
\* run has created, every one but the latest is finalized (completed_at set,
\* status no longer running); while a scraper is at work it is for the target
\* of the latest row, which is still running; a browser is only open
\* during an attempt.
C18_TargetsSequential ==
    \A t \in TaskIds :
        LET rows == RowsOf(t) IN
        /\ \A i \in 1..Len(rows) :
              /\ rows[i].id = <<t, i - 1>>
              /\ i < Len(rows) => rows[i].completed_at /\ rows[i].status # "running"
        /\ tasks[t].pc \in ScraperPcs \cup {"finalize", "no_scraper"} =>
              /\ Len(rows) = tasks[t].idx + 1
              /\ tasks[t].cur_run = rows[Len(rows)].id
              /\ rows[Len(rows)].status = "running"
              /\ rows[Len(rows)].retailer = CurrentRetailer(tasks[t])
        /\ tasks[t].browser > 0 => tasks[t].pc \in {"page", "close"}

\* C18, second part as the claim states it: at no time is more than one
\* browser open that the run started.
C18_OneOpenBrowserSession ==
    Cardinality({r \in scraper.live : r[2] = "browser"}) <= 1

\* C19: escalation changes the profile.  As the claim states it: with more
\* than one user agent in the pool, the user agent of every retry differs from
\* the user agent of the attempt before it (attempts that got as far as
\* creating a context, in stealth mode, where the pool is drawn from).
C19_EscalationChangesProfile ==
    (Len(STEALTH_USER_AGENTS) > 1 /\ scraper.stealth) =>
        \A k \in 1..(Len(scraper.attempts) - 1) :
            (scraper.attempts[k].ua # None /\ scraper.attempts[k + 1].ua # None)
                => scraper.attempts[k + 1].ua # scraper.attempts[k].ua

\* C20 as the claim states it: in stealth mode the delay bounds of every retry
\* are those of the attempt before it multiplied by 1.5, and never smaller.
C20_EachRetryWidensPrevious ==
    scraper.stealth =>
        \A k \in 1..(Len(scraper.attempts) - 1) :
            LET prev == scraper.attempts[k]
                next == scraper.attempts[k + 1]
            IN /\ next.min_delay >= prev.min_delay
               /\ next.max_delay >= prev.max_delay
               /\ 2 * next.min_delay = 3 * prev.min_delay
               /\ 2 * next.max_delay = 3 * prev.max_delay

\* C20, amended: in stealth mode the first attempt has the configured bounds
\* (SCRAPE_MIN_DELAY, SCRAPE_MAX_DELAY) and every retry has the configured
\* bounds multiplied by 1.5, not the previous attempt's: the second and the
\* third attempt have the same bounds; the bounds of a retry are never smaller
\* than those of the attempt before it.  With stealth mode off the bounds stay
\* the configured ones.
C20_RetriesWidenConfiguredBounds ==
    \A k \in 1..Len(scraper.attempts) :
        LET a == scraper.attempts[k] IN
        /\ IF scraper.stealth /\ k >= 2
           THEN /\ 2 * a.min_delay = 3 * Seconds(SCRAPE_MIN_DELAY)
                /\ 2 * a.max_delay = 3 * Seconds(SCRAPE_MAX_DELAY)
           ELSE /\ a.min_delay = Seconds(SCRAPE_MIN_DELAY)
                /\ a.max_delay = Seconds(SCRAPE_MAX_DELAY)
        /\ k >= 2 => /\ a.min_delay >= scraper.attempts[k - 1].min_delay
                     /\ a.max_delay >= scraper.attempts[k - 1].max_delay

\* C20, its case: a stealth run of three attempts; the bounds went from
\* (3 s, 8 s) to (4.5 s, 12 s) and stayed there for the third attempt.
C20_Witness ==
    /\ scraper.stealth
    /\ Len(scraper.attempts) = 3
    /\ scraper.attempts[1].min_delay = 3000 /\ scraper.attempts[1].max_delay = 8000
    /\ scraper.attempts[2].min_delay = 4500 /\ scraper.attempts[2].max_delay = 12000
    /\ scraper.attempts[3].min_delay = 4500 /\ scraper.attempts[3].max_delay = 12000

\* C22 as the claim states it: when run() returns after attempts that ended
\* blocked, the result carries the block reason and the title and the URL of
\* the blocking page.
C22_BlockedResultHasDiagnostics ==
    (/\ scraper.pc = "returned"
     /\ Len(scraper.attempts) > 0
     /\ scraper.attempts[Len(scraper.attempts)].status = "blocked") =>
        LET k == Len(scraper.attempts) IN
        /\ scraper.result.error_message = Err("blocked", k - 1)
        /\ scraper.result.page_title = <<PageOf(k - 1)>>
        /\ scraper.result.page_url = <<PageOf(k - 1)>>

\* C23: run() returns completed exactly when an attempt completed, and at the
\* first such attempt: the completed attempt is the last one executed, the
\* result carries its capture (screenshot, markup), title and URL, and the
\* error_message is empty whatever the earlier attempts did.
C23_CompletedAtFirstSuccess ==
    /\ \A k \in 1..Len(scraper.attempts) :
          scraper.attempts[k].status = "completed" =>
             /\ k = Len(scraper.attempts)
             /\ scraper.pc = "returned"
             /\ scraper.result =
                   [status |-> "completed", error_message |-> None,
                    page_title |-> <<PageOf(k - 1)>>, page_url |-> <<PageOf(k - 1)>>,
                    captured |-> <<k - 1>>]
    /\ scraper.pc = "returned" =>
          (scraper.result.status = "completed" <=>
              \E k \in 1..Len(scraper.attempts) :
                  scraper.attempts[k].status = "completed")
    /\ (scraper.pc = "close" /\ scraper.att_status = "completed") =>
          /\ scraper.result.error_message = None
          /\ scraper.result.captured = <<scraper.attempt>>

\* C23, its case: the first attempt was blocked, the second raised, the third
\* completed; run() returned the third attempt's capture with no error.
C23_Witness ==
    /\ scraper.pc = "returned"
    /\ Len(scraper.attempts) = 3
    /\ scraper.attempts[1].status = "blocked"
    /\ scraper.attempts[2].status = "error"
    /\ scraper.attempts[3].status = "completed"
    /\ scraper.last_error = Err("error", 1)
    /\ scraper.result.status = "completed"
    /\ scraper.result.error_message = None
    /\ scraper.result.captured = <<2>>

\* The steps of an attempt that come after the block tests.
AfterDetection == {"delay", "dismiss", "scroll", "capture"}

\* C21 as the claim states it: in stealth mode, when the navigation ended on
\* an access-denied answer (response status 403, 429 or 503, or a title with
\* a blocked phrase), the attempt fails as blocked at once: the challenge wait
\* is not entered, and no dismissal, scroll or capture runs.
C21_AccessDeniedFailsImmediately ==
    (/\ visit.stealth
     /\ visit.nav_page # None
     /\ detect_access_denied(visit.nav_page[1], visit.response)) =>
        /\ visit.pc \notin {"wait"} \cup AfterDetection
        /\ visit.polls = 0
        /\ visit.ran \cap ({"wait"} \cup AfterDetection) = {}
        /\ visit.pc = "returned" => visit.result.status = "blocked"

\* C24: the challenge wait is bounded.  The wait polls once per interval
\* (elapsed is polls times the interval) and makes at most timeout / interval
\* polls; it goes on only while the page still shows the challenge; it answers
\* True at the first poll that finds the challenge gone, and False, after the
\* last poll, when the challenge is still there; on False the attempt returns
\* blocked with the reason, without denial test, dismissal, scroll or capture.
C24_ChallengeWaitBounded ==
    /\ visit.polls * interval <= timeout_s
    /\ visit.pc = "wait" =>
          /\ visit.elapsed = visit.polls * interval
          /\ detect_cloudflare_challenge(visit.page[1])
    /\ visit.resolved = <<TRUE>> =>
          /\ visit.polls >= 1
          /\ ~detect_cloudflare_challenge(visit.page[1])
          /\ visit.pc # "wait"
    /\ visit.resolved = <<FALSE>> =>
          /\ visit.polls * interval = timeout_s
          /\ detect_cloudflare_challenge(visit.page[1])
          /\ visit.pc = "returned"
          /\ visit.result.status = "blocked"
          /\ visit.result.error_message = <<"challenge_not_resolved">>
          /\ visit.ran \cap ({"detect_denied"} \cup AfterDetection) = {}
    /\ (visit.pc # "wait" /\ "wait" \in visit.ran) => visit.resolved # None

\* C24, its case: the challenge never cleared; after ten polls the wait
\* answered False and the attempt returned blocked.
C24_Witness ==
    /\ visit.pc = "returned"
    /\ visit.resolved = <<FALSE>>
    /\ visit.polls = 10
    /\ visit.result.status = "blocked"

\* C25: one run record per target, and last_scraped on success only.  For
\* every invocation: the rows it wrote are one per target it has started on,
\* in the order of the targets, each with its own id; the row of the target
\* under way was created as running before the scraper started and stays
\* running while the scraper works; the row of a target that is done has the
\* status the result had; and the target's last_scraped was advanced by that
\* run if and only if that status is completed or partial.
C25_OneRecordPerTarget ==
    \A t \in TaskIds :
        LET tk == tasks[t]
            rows == RowsOf(t)
            done == Len(tk.run_ids)
        IN /\ Len(rows) \in {done, done + 1}
           /\ Len(rows) <= Len(tk.retailers)
           /\ \A i, j \in 1..Len(rows) : rows[i].id = rows[j].id => i = j
           /\ \A i \in 1..Len(rows) : rows[i].retailer = tk.retailers[i]
           /\ tk.pc \in ScraperPcs =>
                /\ Len(rows) = done + 1
                /\ rows[done + 1].status = "running"
                /\ ~rows[done + 1].completed_at
                /\ last_scraped[tk.retailers[done + 1]] # <<t, done>>
           /\ \A i \in 1..done :
                /\ rows[i].status = tk.outcomes[i]
                /\ last_scraped[tk.retailers[i]] = rows[i].id
                      <=> rows[i].status \in {"completed", "partial"}

\* C25, its case: a run is through two targets, the first failed and the
\* second completed: two rows, last_scraped advanced for the second only.
C25_Witness ==
    \E t \in TaskIds :
        /\ Len(tasks[t].run_ids) = 2
        /\ Len(RowsOf(t)) = 2
        /\ RowsOf(t)[1].status = "failed"
        /\ RowsOf(t)[2].status = "completed"
        /\ last_scraped[tasks[t].retailers[1]] = None
        /\ last_scraped[tasks[t].retailers[2]] = RowsOf(t)[2].id

\* C30: no run record is left dangling.  When a _scrape_single_retailer call
\* has returned normally (and run_scrape returns normally only when each of
\* its calls has), the row it created has a terminal status, never running,
\* and completed_at set: also when no scraper is registered, when the scraper
\* raised, and when storing the artifacts failed.
C30_NoDanglingRunRecord ==
    (single.pc = "returned" /\ single.exc = "") =>
        /\ single.row # None
        /\ single.row[1].status \in {"completed", "failed"}
        /\ single.row[1].completed_at
        /\ single.slug \notin SCRAPER_REGISTRY => single.row[1].status = "failed"
        /\ single.scraper_raised =>
              /\ single.row[1].status = "failed"
              /\ single.row[1].error_message = Err("unexpected", 0)

\* C30, its case: the scraper completed, storing the screenshot and the
\* markup both failed, and the call returned with the row completed.
C30_Witness ==
    /\ single.pc = "returned"
    /\ single.exc = ""
    /\ single.result # None
    /\ single.result[1].captured
    /\ single.saved = {}
    /\ single.row[1].status = "completed"
    /\ single.row[1].completed_at
    /\ ~single.row[1].screenshot_path

\* C30 on the run: an invocation of run_scrape that returned normally has only
\* finalized rows.
C30_ReturnedRunHasFinalRows ==
    \A t \in TaskIds :
        (tasks[t].pc = "returned" /\ tasks[t].exc = "") =>
            \A i \in 1..Len(RowsOf(t)) :
                /\ RowsOf(t)[i].status # "running"
                /\ RowsOf(t)[i].completed_at

\* C26: inter-target cooldown.  In an invocation over N targets a cooldown
\* sleep starts only after a target that is not the last, once that target's
\* run id is kept and its counters are written (retailers_completed and
\* progress at i of N), and lasts COOLDOWN_SECONDS; target i+1 is not begun
\* before the i-th cooldown; an invocation that leaves the loop normally has
\* slept N-1 times, none after the last target.
C26_CooldownBetweenTargets ==
    \A t \in TaskIds :
        LET tk == tasks[t]
            n == Len(tk.retailers)
        IN /\ tk.pc = "cooldown" =>
                /\ tk.idx < n - 1
                /\ tk.wait_time = COOLDOWN_SECONDS
                /\ tk.cooldowns = tk.idx + 1
                /\ Len(tk.run_ids) = tk.idx + 1
                /\ Len(RowsOf(t)) = tk.idx + 1
                /\ current_scrape # None =>
                      /\ current_scrape[1].retailers_completed = tk.idx + 1
                      /\ current_scrape[1].progress = <<tk.idx + 1, n>>
           /\ tk.pc \in LoopPcs \ {"cooldown"} => tk.cooldowns = tk.idx
           /\ Len(RowsOf(t)) <= tk.cooldowns + 1
           /\ (tk.pc \in {"finally", "returned"} /\ tk.exc = "" /\ n > 0) =>
                /\ tk.cooldowns = n - 1
                /\ tk.idx = n - 1

\* C26, its case: a run over three targets returned normally after two
\* cooldowns.
C26_Witness ==
    \E t \in TaskIds :
        /\ tasks[t].pc = "returned" /\ tasks[t].exc = ""
        /\ Len(tasks[t].retailers) = 3
        /\ tasks[t].cooldowns = 2
        /\ current_scrape = None

\* C27: an exception out of the per-target processing is not swallowed.  An
\* invocation in which a commit raised while a row was created or finalized
\* goes to the finally and on to its caller with the exception, the lock
\* clear by the time the caller has it; the target that raised is not counted
\* as done and no target after it is begun; and an invocation that returns
\* without an exception has processed all its targets.
C27_ExceptionPropagatesAfterRelease ==
    \A t \in TaskIds :
        LET tk == tasks[t]
            n == Len(tk.retailers)
        IN /\ tk.exc = "DBError" => tk.pc \in {"finally", "returned", "done"}
           /\ (tk.exc = "DBError" /\ tk.pc \in {"finally", "returned"}) =>
                /\ tk.idx < n
                /\ Len(tk.run_ids) = tk.idx
                /\ Len(RowsOf(t)) \in {tk.idx, tk.idx + 1}
           /\ (tk.exc # "" /\ tk.pc = "returned") => current_scrape = None
           /\ (tk.exc = "" /\ tk.pc = "returned") => Len(tk.run_ids) = n

\* C27, its case: a run over three targets in which a commit raised on the
\* first target: the exception is with the caller, the lock is clear and the
\* two other targets were never begun.
C27_Witness ==
    \E t \in TaskIds :
        /\ tasks[t].pc = "returned"
        /\ tasks[t].exc = "DBError"
        /\ Len(tasks[t].retailers) = 3
        /\ tasks[t].idx = 0
        /\ Len(RowsOf(t)) = 1
        /\ current_scrape = None

\* The invocation whose claim is the latest one that succeeded.
ClaimOwner == CHOOSE t \in TaskIds \cup {0} :
                /\ t # 0 => tasks[t].claimed
                /\ \A u \in TaskIds : tasks[u].claimed => u <= t

\* C28 as the claim states it: only the owner clears the state.  Whenever a
\* step of an invocation that is finishing (the finally of run_scrape, then
\* the end of _background_scrape with its extra release) clears a state that
\* was set, that state is the invocation's own claim, not the claim of a
\* trigger request; and the extra release never finds a state to clear.
C28_OnlyOwnerClears ==
    [][\A t \in TaskIds :
          /\ (/\ tasks[t].pc = "finally" /\ tasks'[t].pc = "returned"
              /\ current_scrape # None /\ current_scrape' = None)
                => t = ClaimOwner /\ tasks[t].claimed
          /\ (tasks[t].pc = "returned" /\ tasks'[t].pc = "done")
                => current_scrape = None /\ current_scrape' = None]_vars

\* C29 as the claim states it: no lock leak on the trigger path.  Once the
\* background task of a trigger request that claimed the lock is over,
\* however it ended, the claim it was queued with no longer stands.
C29_NoLockLeak ==
    \A t \in TaskIds :
        (tasks[t].kind = "bg" /\ tasks[t].claimed /\ tasks[t].pc = "done") =>
            ~(current_scrape # None /\ ClaimOwner = t)

====
